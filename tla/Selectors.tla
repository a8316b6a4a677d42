------------------------------ MODULE Selectors ------------------------------
(***************************************************************************)
(* generate_selectors (agents/subagents/browser/generate/generate.py): how  *)
(* the element a browser-use agent interacted with becomes the selector     *)
(* under which a replay looks for it. Pure operators, used by Generation.   *)
(*                                                                         *)
(* An element is [tag, classes, attributes, css, xpath]: a name or "", a    *)
(* sequence of class tokens, a function from attribute names to values, the *)
(* steps of its css path as [text, nth], and its xpath or "". A selector    *)
(* says what an element must have: [tag, classes, attributes, path].        *)
(***************************************************************************)
EXTENDS Sequences, Naturals, SequencesExt

CONSTANTS
  Dynamic,  \* values _is_probably_dynamic_value takes for generated ones
  Generic,  \* words too generic for an id or a class
  Lengthy   \* values longer than the limit their attribute has

\* The members of the sequence s that are in S, in their order, and the first n of s.
Only(s, S) == FlattenSeq([i \in DOMAIN s |-> IF s[i] \in S THEN <<s[i]>> ELSE <<>>])
Upto(n, s) == SubSeq(s, 1, IF Len(s) < n THEN Len(s) ELSE n)

IsElement(el) ==
  /\ {el.tag, el.xpath} \cup DOMAIN el.attributes \subseteq STRING
  /\ \A key \in DOMAIN el.attributes : el.attributes[key] \in STRING
  /\ el.classes \in Seq(STRING) /\ el.css \in Seq([text : STRING, nth : BOOLEAN])

\* What a selector of the element can be made of, apart from punctuation.
Fragments(el) ==
  {el.tag, el.xpath} \cup ToSet(el.classes) \cup {el.css[i].text : i \in DOMAIN el.css}
  \cup DOMAIN el.attributes \cup {el.attributes[key] : key \in DOMAIN el.attributes}

TestIds == {"data-testid", "data-test", "data-qa", "data-cy"}
Descriptive == {"aria-label", "aria-labelledby", "aria-describedby", "placeholder", "title", "href", "value"}

\* INTERACTED_ELEMENT_ATTRIBUTE_PRIORITY
Priority ==
  <<"data-testid", "data-test", "data-qa", "data-cy", "id", "name", "aria-label", "aria-labelledby",
    "aria-describedby", "placeholder", "title", "role", "type", "href", "value">>
Primary ==
  <<"data-testid", "data-test", "data-qa", "data-cy", "id", "name", "aria-label", "placeholder", "role", "type">>
\* FALLBACK_SELECTOR_ATTRIBUTES without "value", which is not in SAFE_SELECTOR_ATTRIBUTES.
Fallback == <<"aria-labelledby", "aria-describedby", "title", "href", "src", "alt", "target">>

\* Mutant: a generated id counts as robust.
RobustEnough(key, value) == IF key = "id" THEN value \notin Generic ELSE value \notin Lengthy

\* _is_robust_attribute. A URL with a query or a fragment is Lengthy too.
Robust(key, value) ==
  CASE key = "id"                             -> value \notin Generic \cup Dynamic
    [] key \in TestIds                        -> value \notin Dynamic
    [] key \in {"value", "src", "target"}     -> value \notin Lengthy \cup Dynamic
    [] key \in {"title", "aria-label", "aria-labelledby", "aria-describedby", "href"} -> value \notin Lengthy
    [] OTHER                                  -> TRUE

\* The pairs of the element under these names, in this order, that can be relied on.
Pairs(el, names) ==
  LET keys == Only(names, {key \in DOMAIN el.attributes : Robust(key, el.attributes[key])})
  IN [i \in DOMAIN keys |-> <<keys[i], el.attributes[keys[i]]>>]

\* _meaningful_class_tokens
ClassTokens(el) == Upto(2, Only(el.classes, ToSet(el.classes) \ (Generic \cup Dynamic)))

Selector(tag, classes, attributes) ==
  [tag |-> tag, classes |-> classes, attributes |-> attributes, path |-> <<>>]
PathSelector(path) == [tag |-> "", classes |-> <<>>, attributes |-> <<>>, path |-> path]

\* _build_enhanced_css_selector: two primary attributes, or else one of the others.
Enhanced(el) ==
  LET primary == Upto(2, Pairs(el, Primary))
  IN IF el.tag = "" THEN <<>>
     ELSE <<Selector(el.tag, ClassTokens(el), IF primary # <<>> THEN primary ELSE Upto(1, Pairs(el, Fallback)))>>

\* _short_css_selector: the longest tail of at most two steps without a position.
ShortCss(css) ==
  LET n == Len(css)
      tails == {k \in {1, 2} : k <= n /\ \A i \in n - k + 1..n : ~css[i].nth}
      Texts(steps) == [i \in DOMAIN steps |-> steps[i].text]
  IN IF n = 1 THEN <<PathSelector(Texts(css))>>
     ELSE IF tails = {} THEN <<>>
     ELSE IF 2 \in tails THEN <<PathSelector(Texts(SubSeq(css, n - 1, n)))>>
     ELSE <<PathSelector(Texts(SubSeq(css, n, n)))>>

\* _append_candidate: one that is there already is not appended again.
Distinct(s) ==
  LET new == Only([k \in DOMAIN s |-> k], {k \in DOMAIN s : \A j \in 1..k - 1 : s[j] # s[k]})
  IN [i \in DOMAIN new |-> s[new[i]]]

\* The candidates in order.
generate_selectors(el) ==
  LET meaningful == Pairs(el, Priority)
      FirstOf(keys) == Upto(1, Only(meaningful, {p \in ToSet(meaningful) : p[1] \in keys}))
      strong == FirstOf(TestIds \cup {"id", "name"})
      described == FirstOf(Descriptive)
      shown == Only(described, {p \in ToSet(described) : p[1] \notin {"href", "title"}})
      classes == ClassTokens(el)
      strongs == IF strong = <<>> THEN <<>>
                 ELSE <<Selector(el.tag, <<>>, strong)>>
                      \o (IF shown = <<>> THEN <<>> ELSE <<Selector(el.tag, <<>>, strong \o shown)>>)
      first3 == LET three == Upto(3, meaningful) IN [i \in DOMAIN three |-> Selector(el.tag, <<>>, <<three[i]>>)]
      classy == classes # <<>> /\ el.tag # ""
      all == Enhanced(el) \o strongs
             \o (IF classy /\ shown # <<>> THEN <<Selector(el.tag, classes, shown)>> ELSE <<>>)
             \o first3
             \o (IF classy THEN <<Selector(el.tag, classes, <<>>)>> ELSE <<>>)
             \o ShortCss(el.css)
             \o (IF el.xpath = "" THEN <<>> ELSE <<PathSelector(<<el.xpath>>)>>)
  IN Distinct(all)

\* A selector as text. The dot, the brackets and the quotes are fragments of their own.
Rendered(s) ==
  LET Class(c) == <<".", c>>
      Attribute(p) == <<"[", p[1], "=", p[2], "]">>
  IN (IF s.tag = "" THEN <<>> ELSE <<s.tag>>)
     \o FlattenSeq([i \in DOMAIN s.classes |-> Class(s.classes[i])])
     \o FlattenSeq([i \in DOMAIN s.attributes |-> Attribute(s.attributes[i])])
     \o s.path

\* The element is among those the selector finds.
Matches(s, el) ==
  /\ s.tag \in {"", el.tag}
  /\ ToSet(s.classes) \subseteq ToSet(el.classes)
  /\ \A p \in ToSet(s.attributes) : p[1] \in DOMAIN el.attributes /\ el.attributes[p[1]] = p[2]
  /\ \/ s.path = <<>> \/ s.path = <<el.xpath>>
     \/ Len(s.path) <= Len(el.css)
        /\ \A i \in DOMAIN s.path : s.path[i] = el.css[Len(el.css) - Len(s.path) + i].text
=============================================================================
