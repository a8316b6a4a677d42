---------------------------- MODULE Placeholders ----------------------------
(***************************************************************************)
(* How parameter values leave a task and come back: aliases for secrets,    *)
(* placeholders in the generated workflow, and their resolution in a replay *)
(* (generate/agent.py, browser/agent.py, engine/executor.py). Pure          *)
(* operators, used by Generation.                                          *)
(*                                                                         *)
(* A text is a sequence of fragments. A fragment that is not in Marks is    *)
(* made of characters that \w matches. A parameter is [name, value, secret, *)
(* url]: two texts, whether its name looks like that of a credential, and   *)
(* whether it looks like that of a URL. Parameters come in the order of the *)
(* caller's dict.                                                          *)
(***************************************************************************)
EXTENDS Sequences, Naturals, FiniteSets

CONSTANTS
  Marks,   \* fragments that a parameter name cannot have: braces, tags, blanks
  Size,    \* characters of a fragment
  Aliases  \* _alias_for(0), _alias_for(1), ...

\* Aliases are made of capitals, which the names and values given here are not.
ASSUME AliasAssumption ==
  /\ {"{{", "}}", "<secret>", "</secret>", " "} \subseteq Marks  \* Brackets and the blank
  /\ Aliases \in Seq(STRING) /\ \A i \in DOMAIN Aliases : Aliases[i] \notin Marks
  /\ \A i, j \in DOMAIN Aliases : Aliases[i] = Aliases[j] => i = j

\* What aliases and placeholders are marked with.
Brackets == {"{{", "}}", "<secret>", "</secret>"}

Parameter == [name : Seq(STRING), value : Seq(STRING), secret : BOOLEAN, url : BOOLEAN]

Tag(name) == <<"<secret>">> \o name \o <<"</secret>">>
Placeholder(name) == <<"{{">> \o name \o <<"}}">>

Total(text) == LET Upto[n \in 0..Len(text)] == IF n = 0 THEN 0 ELSE Size[text[n]] + Upto[n - 1] IN Upto[Len(text)]

Occurs(part, text, i) == i + Len(part) - 1 <= Len(text) /\ SubSeq(text, i, i + Len(part) - 1) = part
Within(text, part) == \E i \in DOMAIN text : Occurs(part, text, i)

\* A text is read from left to right: at each place, what is written for it and where
\* reading goes on. What is written is not read again.
Scanned(out, next) ==
  LET From[i \in 1..Len(out) + 1] == IF i > Len(out) THEN <<>> ELSE out[i] \o From[next[i]]
  IN From[1]

\* str.replace: every occurrence of a part that is not empty.
Replace(text, part, by) ==
  Scanned([i \in DOMAIN text |-> IF Occurs(part, text, i) THEN by ELSE <<text[i]>>],
          [i \in DOMAIN text |-> IF Occurs(part, text, i) THEN i + Len(part) ELSE i + 1])

\* Where a name that is open at this place ends.
Ends(text, open, close, i) ==
  {j \in i + 2..Len(text) : /\ text[i] = open /\ text[j] = close
                            /\ \A k \in i + 1..j - 1 : text[k] \notin Marks}

\* re.sub of open \s*(\w+)\s* close: no blank is written inside these brackets. What by does
\* not know stays as it is.
Rewrite(text, open, close, by) ==
  LET End == [i \in DOMAIN text |->
        IF Ends(text, open, close, i) = {} THEN 0 ELSE CHOOSE j \in Ends(text, open, close, i) : TRUE]
      Name(i) == SubSeq(text, i + 1, End[i] - 1)
  IN Scanned([i \in DOMAIN text |->
                IF End[i] = 0 THEN <<text[i]>>
                ELSE IF Name(i) \in DOMAIN by THEN by[Name(i)] ELSE <<open>> \o Name(i) \o <<close>>],
             [i \in DOMAIN text |-> IF End[i] = 0 THEN i + 1 ELSE End[i] + 1])

\* A text that is not empty, has no brackets, and has no blank at its ends.
Bare(text) ==
  /\ text # <<>> /\ \A k \in DOMAIN text : text[k] \notin Brackets
  /\ text[1] # " " /\ text[Len(text)] # " "
-----------------------------------------------------------------------------
\* validate_parameters
Valid(params) ==
  \A i \in DOMAIN params :
    /\ params[i].name # <<>> /\ \A k \in DOMAIN params[i].name : params[i].name[k] \notin Marks
    /\ \E k \in DOMAIN params[i].value : params[i].value[k] # " "

Names(params) == {params[i].name : i \in DOMAIN params}
Named(params, name) == params[CHOOSE i \in DOMAIN params : params[i].name = name]
Secrets(params) == {i \in DOMAIN params : params[i].secret}

\* A dict with names and values that are texts, and no more secrets than there are aliases.
IsParameters(params) ==
  /\ params \in Seq(Parameter) /\ Cardinality(Secrets(params)) <= Len(Aliases)
  /\ \A i, j \in DOMAIN params : params[i].name = params[j].name => i = j
  /\ \A i \in DOMAIN params : \A k \in DOMAIN params[i].value : Size[params[i].value[k]] \in Nat

\* _prepare_parameters: the alias of a secret is its number among the secrets.
AliasOf(params, i) == Aliases[Cardinality({j \in Secrets(params) : j <= i})]

\* What the agent is told to write for a parameter.
Told(params, i) == IF params[i].secret THEN Tag(<<AliasOf(params, i)>>) ELSE params[i].value

Aliased(params) == {<<AliasOf(params, i)>> : i \in Secrets(params)}
SecretOf(params, alias) == params[CHOOSE i \in Secrets(params) : <<AliasOf(params, i)>> = alias]

\* What browser-use types when the agent writes this text (sensitive_data, external).
Typed(params, text) ==
  Rewrite(text, "<secret>", "</secret>", [alias \in Aliased(params) |-> SecretOf(params, alias).value])

\* _restore_secret_aliases
RestoreAliases(params, text) ==
  Rewrite(text, "<secret>", "</secret>", [alias \in Aliased(params) |-> Tag(SecretOf(params, alias).name)])
-----------------------------------------------------------------------------
\* _substitute_embedded_secrets
EmbeddedSecrets(params, text) ==
  Rewrite(text, "<secret>", "</secret>", [name \in Names(params) |-> Placeholder(name)])

\* sorted(parameters.items(), key=-len(value)): longest first, ties as in the dict
ByLength(params) ==
  LET Before(i, j) == \/ Total(params[i].value) > Total(params[j].value)
                      \/ Total(params[i].value) = Total(params[j].value) /\ i < j
      Place(i) == 1 + Cardinality({j \in DOMAIN params : Before(j, i)})
  IN [p \in DOMAIN params |-> CHOOSE i \in DOMAIN params : Place(i) = p]

MinEmbedded == 4

\* _substitute_embedded_values
EmbeddedValues(params, text) ==
  LET order == ByLength(params)
      After[n \in 0..Len(params)] ==
        IF n = 0 THEN text
        ELSE LET p == params[order[n]] IN
             IF Total(p.value) < MinEmbedded THEN After[n - 1]
             ELSE Replace(After[n - 1], p.value, Placeholder(p.name))
  IN After[Len(params)]

\* Values can be told from what surrounds them: they have no brackets, and one that is looked
\* for inside a text is not inside a name, where a placeholder would be taken apart.
Separable(params) ==
  \A i \in DOMAIN params :
    /\ \A k \in DOMAIN params[i].value : params[i].value[k] \notin Brackets
    /\ Total(params[i].value) >= MinEmbedded => \A j \in DOMAIN params : ~Within(params[j].name, params[i].value)

\* value_to_key: the last parameter with this value
Exact(params, text) == {i \in DOMAIN params : params[i].value = text}
LastOf(is) == CHOOSE i \in is : \A j \in is : j <= i

\* _infer_browser_parameter_name
Inferred(params, text, isUrl) ==
  LET urls == {i \in DOMAIN params : params[i].url}
  IN IF isUrl /\ Cardinality(urls) = 1 THEN Placeholder(params[CHOOSE i \in urls : TRUE].name) ELSE text

\* _parameterize_browser_workflow, for one parameter of one action
Parameterized(params, text, isNumber, isUrl) ==
  LET secrets == IF isNumber THEN text ELSE EmbeddedSecrets(params, text)
      values == IF isNumber THEN text ELSE EmbeddedValues(params, text)
  IN IF secrets # text THEN secrets
     ELSE IF Exact(params, text) # {} THEN Placeholder(params[LastOf(Exact(params, text))].name)
     ELSE IF values # text THEN values
     ELSE Inferred(params, text, isUrl)

\* The text is this part with blanks around it.
Around(text, part) ==
  \E i \in DOMAIN text : /\ Occurs(part, text, i)
                         /\ \A k \in DOMAIN text \ (i..i + Len(part) - 1) : text[k] = " "

\* _resolve_params of the engine, with the parameters the workflow was generated with. A
\* placeholder by itself loses the blanks around it.
Resolved(params, text) ==
  LET alone == {i \in DOMAIN params : Around(text, Placeholder(params[i].name))}
  IN IF alone # {} THEN params[CHOOSE i \in alone : TRUE].value
     ELSE Rewrite(text, "{{", "}}", [name \in Names(params) |-> Named(params, name).value])
=============================================================================
