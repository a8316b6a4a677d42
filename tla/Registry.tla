------------------------------ MODULE Registry ------------------------------
(***************************************************************************)
(* The registries of actions and triggers (registry/base.py and the base.py *)
(* of actions/ and triggers/): callables registered under names, looked up   *)
(* by name or by callable, and called with the registry's context. A         *)
(* registry writes the name on the callable itself, where every other        *)
(* registry of that kind reads it. All registries here are of one kind.      *)
(***************************************************************************)
EXTENDS Naturals, Sequences

CONSTANTS
  Registries,   \* registries that can be made
  Library,      \* action_registry or trigger_registry, made when it is imported
  Callables,    \* functions, bound methods and classes
  Holder,       \* of a callable: the object its name is written on (__func__)
  Base,         \* of a holder: the class it inherits a name from, or NoBase
  NoBase,
  Unmarkable,   \* holders that refuse attributes, such as built-in functions
  Positional,   \* callables whose ctx is positional-only
  OwnName,      \* of a callable: its __name__, stripped
  MaxName,      \* bound: names are 1..MaxName, in the order they are sorted in
  Contexts,     \* values of a context entry
  MaxCalls      \* bound: calls to the registries

EntryNames == 1..MaxName
None == 0       \* no name given, no name written
Holders == {Holder[c] : c \in Callables}
Missing == "missing"

ASSUME RegistryAssumption ==
  /\ Library \in Registries
  /\ Base \in [Holders -> Holders \cup {NoBase}] /\ NoBase \notin Holders
  /\ OwnName \in [Callables -> EntryNames]
  /\ Positional \subseteq Callables
  /\ Unmarkable \subseteq {h \in Holders : Base[h] = NoBase}
  \* methods of one function have one signature
  /\ \A c \in Positional, d \in Callables : Holder[d] = Holder[c] => d \in Positional
  /\ MaxName \in Nat /\ MaxCalls \in Nat

VARIABLES
  mark,      \* of a holder: the name written on it (NAME_ATTRIBUTE), or None
  entries,   \* of a registry that was made: name to callable (_entries)
  context,   \* of a registry that was made: its context
  made,      \* calls prepared by create(): the registry, the callable, what it named
  calls,     \* calls so far
  last,      \* the last call: what it was and whether it was refused
  ran,       \* history: what the last run named, and what it called
  source,    \* history: of a registry, the entries of the one it was made of
  tidy       \* history: no name was ever taken from a callable

registryVars == <<mark, entries, context, made, calls, last, ran, source, tidy>>

Nothing == [named |-> Missing, did |-> Missing, ctx |-> Missing]

RegistryInit ==
  /\ mark = [h \in Holders |-> None]
  /\ entries = [r \in {Library} |-> <<>>]
  /\ context = [r \in {Library} |-> Missing]
  /\ made = {}
  /\ calls = 0 /\ last = [op |-> "none", refused |-> FALSE]
  /\ ran = Nothing
  /\ source = entries
  /\ tidy = TRUE

Call(op, refused) ==
  /\ calls < MaxCalls
  /\ calls' = calls + 1
  /\ last' = [op |-> op, refused |-> refused]
-----------------------------------------------------------------------------
\* The name on a callable: its own, or the one its class inherits.
MetadataName(m, c) ==
  LET h == Holder[c]
  IN  IF m[h] # None \/ Base[h] = NoBase THEN m[h] ELSE m[Base[h]]

\* Mutant: what was written on the callable is not read.
ResolveInferred(m, c, name) == IF name # None THEN name ELSE OwnName[c]

ResolveName(m, c, name) ==
  IF name # None THEN name
  ELSE IF MetadataName(m, c) # None THEN MetadataName(m, c)
  ELSE OwnName[c]

Marked(m, c, name) ==
  IF Holder[c] \in Unmarkable THEN m ELSE [m EXCEPT ![Holder[c]] = name]

With(f, x, value) == [y \in DOMAIN f \cup {x} |-> IF y = x THEN value ELSE f[y]]

\* Whether c keeps its name, and the name n its callable, when c is registered as n.
Keeps(s, c, n) ==
  /\ MetadataName(Marked(s.mark, c, n), c) = n \/ OwnName[c] = n
  /\ s.mark[Holder[c]] \in {None, n}
  /\ n \in DOMAIN s.es => s.es[n] = c

\* Mutant: the name is written before it is known to be free.
RegisterMarksFirst(s, c, name, overwrite) ==
  LET n == ResolveName(s.mark, c, name)
      t == [s EXCEPT !.mark = Marked(s.mark, c, n)]
  IN  IF s.refused \/ (~overwrite /\ n \in DOMAIN s.es) \/ c \in Positional
      THEN [t EXCEPT !.refused = TRUE]
      ELSE [t EXCEPT !.es = With(s.es, n, c), !.tidy = s.tidy /\ Keeps(s, c, n)]

\* One register(), on the names written and the entries of one registry.
Register(s, c, name, overwrite) ==
  LET n == ResolveName(s.mark, c, name)
      written == Marked(s.mark, c, n)
  IN  IF s.refused \/ (~overwrite /\ n \in DOMAIN s.es) THEN [s EXCEPT !.refused = TRUE]
      ELSE IF c \in Positional THEN [s EXCEPT !.mark = written, !.refused = TRUE]
      ELSE [s EXCEPT !.mark = written, !.es = With(s.es, n, c),
                     !.tidy = s.tidy /\ Keeps(s, c, n)]

\* add_entries(): the first refusal ends it, and what was registered stays.
AddAll(s, cs, overwrite) ==
  LET after[k \in 0..Len(cs)] ==
        IF k = 0 THEN s ELSE Register(after[k - 1], cs[k], None, overwrite)
  IN  after[Len(cs)]

\* add_entries() of what iterating over a registry yields: its callables, by name.
AddItems(s, es) ==
  LET after[n \in 0..MaxName] ==
        IF n = 0 THEN s
        ELSE IF n \in DOMAIN es THEN Register(after[n - 1], es[n], None, FALSE)
        ELSE after[n - 1]
  IN  after[MaxName]

Start(es) == [mark |-> mark, es |-> es, refused |-> FALSE, tidy |-> tidy]
Found(m, es, c) ==
  IF MetadataName(m, c) \in DOMAIN es THEN es[MetadataName(m, c)]
  ELSE IF \E n \in DOMAIN es : es[n] = c THEN c
  ELSE Missing
-----------------------------------------------------------------------------
Registered(r, t) ==
  /\ mark' = t.mark /\ tidy' = t.tidy
  /\ entries' = [entries EXCEPT ![r] = t.es]
  /\ UNCHANGED <<context, made, ran, source>>

\* register(), add_action(), add_trigger() and the decorators.
RegisterOne(r, c, name, overwrite) ==
  LET t == Register(Start(entries[r]), c, name, overwrite)
  IN  Call("register", t.refused) /\ Registered(r, t)

AddEntries(r, cs, overwrite) ==
  LET t == AddAll(Start(entries[r]), cs, overwrite)
  IN  Call("add", t.refused) /\ Registered(r, t)

\* ProgramController and StateExecutor make a registry of the callables of another
\* one; it has a context of its own, equal to the one it is given.
Make(r, of) ==
  LET t == AddItems(Start(<<>>), entries[of])
  IN  /\ r \notin DOMAIN entries
      /\ Call("make", t.refused)
      /\ mark' = t.mark /\ tidy' = t.tidy
      /\ IF t.refused THEN UNCHANGED <<entries, context, source>>
         ELSE /\ entries' = With(entries, r, t.es)
              /\ context' = With(context, r, context[of])
              /\ source' = With(source, r, entries[of])
      /\ UNCHANGED <<made, ran>>

AddContext(r, value) ==
  /\ Call("context", FALSE)
  /\ context' = [context EXCEPT ![r] = value]
  /\ UNCHANGED <<mark, entries, made, ran, source, tidy>>

\* create() with arguments: it looks the name up now and the callable when it is called.
Create(r, name) ==
  /\ name \in DOMAIN entries[r]
  /\ Call("create", FALSE)
  /\ made' = made \cup {[registry |-> r, entry |-> entries[r][name]]}
  /\ UNCHANGED <<mark, entries, context, ran, source, tidy>>

\* run() of what is found: its ctx joins the context for good, also when the arguments
\* are refused afterwards (a duplicate, a ctx among them, a signature that does not bind).
Run(r, named, did, ctx, refused) ==
  /\ Call("run", refused \/ did = Missing)
  /\ context' = IF did = Missing \/ ctx = Missing THEN context
                ELSE [context EXCEPT ![r] = ctx]
  /\ ran' = IF refused /\ did # Missing THEN Nothing
            ELSE [named |-> named, did |-> did, ctx |-> context'[r]]
  /\ UNCHANGED <<mark, entries, made, source, tidy>>

RunName(r, name, ctx, refused) ==
  /\ name \in DOMAIN entries[r]
  /\ Run(r, entries[r][name], entries[r][name], ctx, refused)

RunCreated(m, ctx, refused) ==
  Run(m.registry, m.entry, Found(mark, entries[m.registry], m.entry), ctx, refused)

Done == calls = MaxCalls /\ UNCHANGED registryVars

RegistryNext ==
  \/ \E r \in DOMAIN entries, c \in Callables, name \in EntryNames \cup {None},
       overwrite \in BOOLEAN : RegisterOne(r, c, name, overwrite)
  \/ \E r \in DOMAIN entries, c, d \in Callables, overwrite \in BOOLEAN :
       AddEntries(r, <<c, d>>, overwrite)
  \/ \E r \in Registries, of \in DOMAIN entries : Make(r, of)
  \/ \E r \in DOMAIN entries, v \in Contexts : AddContext(r, v)
  \/ \E r \in DOMAIN entries, name \in EntryNames : Create(r, name)
  \/ \E r \in DOMAIN entries, name \in EntryNames, v \in Contexts \cup {Missing},
       refused \in BOOLEAN : RunName(r, name, v, refused)
  \/ \E m \in made, v \in Contexts \cup {Missing}, refused \in BOOLEAN :
       RunCreated(m, v, refused)
  \/ Done

RegistrySpec == RegistryInit /\ [][RegistryNext]_registryVars
-----------------------------------------------------------------------------
\* A registration that is refused, on its own, leaves every registry as it was, and every
\* registered callable is still found where it was, although names are written on the
\* callables themselves and one refusal comes after the writing (register).
RefusedChangesNothing ==
  [][ calls' # calls /\ last'.op = "register" /\ last'.refused =>
        /\ entries' = entries
        /\ \A r \in DOMAIN entries : \A n \in DOMAIN entries[r] :
             Found(mark', entries[r], entries[r][n]) = Found(mark, entries[r], entries[r][n])
    ]_registryVars

\* As long as no registration took a name from a callable or gave one callable two, a
\* registry made of another's callables is never refused and holds each under the name it
\* had there (the default registries of ProgramController and StateExecutor are made so),
\* and a call prepared by create() reaches the callable it was prepared for.
CallsReachWhatTheyName ==
  tidy => /\ ~(last.op = "make" /\ last.refused)
          /\ \A r \in DOMAIN source : \A n \in DOMAIN source[r] :
               n \in DOMAIN entries[r] /\ entries[r][n] = source[r][n]
          /\ ran.did = ran.named
=============================================================================
