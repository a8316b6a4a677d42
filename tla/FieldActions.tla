---------------------------- MODULE FieldActions ----------------------------
(***************************************************************************)
(* The page actions that work on what is on the page: input_text,           *)
(* select_dropdown_option, send_keys, scroll, scroll_to_text,               *)
(* assert_media_playing and wait (registry/actions/playwright.py), added to *)
(* the actions of PageActions that move between pages. Most have several    *)
(* ways of doing their work, of which the next is tried when one raises;    *)
(* one that raised may have had its effect all the same.                    *)
(***************************************************************************)
EXTENDS PageActions, Sequences, SequencesExt

CONSTANTS
  Doings,  \* the field actions the executor may call
  Text,    \* the text or keys given, as a sequence of characters
  Before,  \* what a field may hold before: sequences of characters
  Rooms,   \* for scroll: how far the element and its ancestors can still scroll
  Held     \* for send_keys: how many keys of the chord come before its last one

ASSUME FieldAssumption ==
  /\ Doings \subseteq {"input_text", "select_dropdown_option", "send_keys", "scroll",
                       "scroll_to_text", "assert_media_playing", "wait"}
  /\ Text \in Seq(ToSet(Text))
  /\ Rooms \subseteq Seq(Nat)
  /\ Held \in Nat

VARIABLES
  doing,    \* the field action that runs, or "none"
  way,      \* which of its ways it is trying
  typed,    \* characters sent in this way; 0 before the field is cleared
  cleared,  \* this way has cleared the field
  content,  \* what the field holds
  focused,  \* the field has the keyboard focus
  stolen,   \* history: a script moved the focus since the field was cleared
  effects,  \* history: selections, key presses or scrolls that happened
  late,     \* history: those of ways that raised afterwards
  said      \* how the last field action ended, with the way that did it

fields == <<doing, way, typed, cleared, content, focused, stolen, effects, late, said>>
allVars == <<vars, fields>>
typing == <<typed, cleared, content, focused, stolen>>

FieldInit ==
  /\ Init
  /\ doing = "none" /\ way = 1 /\ typed = 0 /\ cleared = FALSE
  /\ content \in Before
  /\ focused = TRUE /\ stolen = FALSE
  /\ effects = 0 /\ late = 0
  /\ said = [kind |-> "none", of |-> "none", way |-> 0]

Finished(kind, w) ==
  /\ said' = [kind |-> kind, of |-> doing, way |-> w]
  /\ doing' = "none"

\* input_text: click+keyboard.type, fill, type, js-set-value.
\* select_dropdown_option: label, value, opening click, seven locators, js click.
\* send_keys: the keys at once, then each of them. scroll_to_text: three locators.
LastWay ==
  CASE doing = "input_text" -> 4
    [] doing = "select_dropdown_option" -> 11
    [] doing = "send_keys" -> 2
    [] doing = "scroll_to_text" -> 3
    [] doing \in {"none", "scroll", "assert_media_playing", "wait"} -> 1
-----------------------------------------------------------------------------
FieldStart ==
  /\ pc = "idle" /\ doing = "none" /\ calls < MaxCalls
  /\ doing' \in Doings
  /\ calls' = calls + 1
  /\ way' = 1 /\ typed' = 0 /\ cleared' = FALSE
  /\ content' \in Before
  /\ focused' = TRUE /\ stolen' = FALSE
  /\ effects' = 0 /\ late' = 0
  /\ UNCHANGED <<world, ctxPage, call, pc, page, click, report, adopted, said>>

Doing(action) == doing = action /\ UNCHANGED vars

\* What is not inside a try: the selector is empty or matches nothing, num_pages
\* is negative, the element or its handle is gone, the media is not playing, the
\* seconds are infinite, a Playwright call raises.
GivesUp ==
  /\ doing \in Doings /\ UNCHANGED vars
  /\ way = 1 /\ ~cleared /\ effects = 0
  /\ Finished("raised", 0)
  /\ UNCHANGED <<way, typing, effects, late>>

\* The action ends with what it found in one step: wait has slept for at least a
\* second, or the media element is playing.
Passes ==
  /\ doing \in {"wait", "assert_media_playing"} /\ UNCHANGED vars
  /\ Finished("returned", 1)
  /\ UNCHANGED <<way, typing, effects, late>>

\* The first of ten containers upwards with room left in the direction, else the
\* window (0).
ScrollTargets(rooms) ==
  LET able == {k \in DOMAIN rooms : k <= 10 /\ rooms[k] > 0}
  IN IF able = {} THEN {0} ELSE {CHOOSE k \in able : \A o \in able : k <= o}

\* scroll, which reports that it scrolled whether or not the window moves.
Scroll ==
  /\ Doing("scroll")
  /\ \E rooms \in Rooms : effects' = Cardinality(ScrollTargets(rooms))
  /\ Finished("returned", 1)
  /\ UNCHANGED <<way, typing, late>>

\* A locator of scroll_to_text or select_dropdown_option finds nothing to work
\* with, and its next way comes.
Skips ==
  /\ UNCHANGED vars
  /\ \/ doing = "scroll_to_text"
     \/ doing = "select_dropdown_option" /\ way \in 4..10
  /\ way < LastWay
  /\ way' = way + 1
  /\ UNCHANGED <<doing, typing, effects, late, said>>

\* None of the three locators found the text: "found" is False.
NotFound ==
  /\ Doing("scroll_to_text") /\ way = LastWay
  /\ Finished("returned", 0)
  /\ UNCHANGED <<way, typing, effects, late>>
-----------------------------------------------------------------------------
\* Mutant: the loop over the locators goes on after a click that worked.
SelectsAndGoesOn ==
  /\ \/ Doing("select_dropdown_option") /\ way # 3
     \/ Doing("scroll_to_text")
  /\ effects' = effects + 1
  /\ IF way \in 4..9 /\ doing = "select_dropdown_option"
     THEN way' = way + 1 /\ UNCHANGED <<doing, said>>
     ELSE Finished("returned", way) /\ UNCHANGED way
  /\ UNCHANGED <<typing, late>>

\* One way of selecting, or of scrolling to a text, works: the action returns.
\* (The third way of selecting only opens the menu.)
Selects ==
  /\ \/ Doing("select_dropdown_option") /\ way # 3
     \/ Doing("scroll_to_text")
  /\ effects' = effects + 1
  /\ Finished("returned", way)
  /\ UNCHANGED <<way, typing, late>>

\* The click that opens the menu, whatever comes of it.
OpensMenu ==
  /\ Doing("select_dropdown_option") /\ way = 3
  /\ way' = 4
  /\ UNCHANGED <<doing, typing, effects, late, said>>

\* A way raises, before or after its effect; the error is kept for later.
WayRaises ==
  /\ doing \in {"select_dropdown_option", "scroll_to_text"} /\ UNCHANGED vars
  /\ doing = "select_dropdown_option" => way # 3
  /\ \E n \in {0, 1} : effects' = effects + n /\ late' = late + n
  /\ \/ way < LastWay /\ way' = way + 1 /\ UNCHANGED <<doing, said>>
     \/ /\ way = LastWay /\ UNCHANGED way
        /\ IF doing = "scroll_to_text" THEN Finished("returned", 0)
           ELSE Finished("raised", 0)
  /\ UNCHANGED typing

\* The script that looks for the option in the page finds none.
NoOption ==
  /\ Doing("select_dropdown_option") /\ way = LastWay
  /\ Finished("raised", 0)
  /\ UNCHANGED <<way, typing, effects, late>>
-----------------------------------------------------------------------------
\* keyboard.press(keys)
Presses ==
  /\ Doing("send_keys") /\ way = 1
  /\ effects' = effects + 1
  /\ Finished("returned", 1)
  /\ UNCHANGED <<way, typing, late>>

\* It raises. "Unknown key" leads to the fallback; the keys of the chord before the
\* unknown one are pressed by then, and stay down. Anything else ends the action,
\* possibly after its effect.
PressRaises ==
  /\ Doing("send_keys") /\ way = 1
  /\ \/ /\ \E n \in 0..Held : effects' = n /\ late' = n
        /\ way' = 2 /\ UNCHANGED <<doing, said>>
     \/ \E n \in {0, 1} :
          /\ effects' = n /\ late' = n
          /\ Finished("raised", 0)
          /\ UNCHANGED way
  /\ UNCHANGED typing

\* One of the keys of the fallback
PressesEach ==
  /\ Doing("send_keys") /\ way = 2
  /\ \/ /\ effects < late + Len(Text)
        /\ effects' = effects + 1
        /\ UNCHANGED <<doing, said>>
     \/ /\ effects < late + Len(Text)
        /\ Finished("raised", 0) /\ UNCHANGED effects
     \/ /\ effects = late + Len(Text)
        /\ Finished("returned", 2) /\ UNCHANGED effects
  /\ UNCHANGED <<way, typing, late>>
-----------------------------------------------------------------------------
\* Mutant: only the first way clears the field.
ClearsOnce ==
  /\ Doing("input_text") /\ way \in {1, 3} /\ ~cleared
  /\ cleared' = TRUE
  /\ content' = IF way = 1 THEN <<>> ELSE content
  /\ typed' = 0
  /\ focused' = TRUE /\ stolen' = FALSE
  /\ UNCHANGED <<doing, way, effects, late, said>>

\* The script that empties the field, and the click or focus that follows.
Clears ==
  /\ Doing("input_text") /\ way \in {1, 3} /\ ~cleared
  /\ cleared' = TRUE
  /\ content' = <<>>
  /\ typed' = 0
  /\ focused' = TRUE /\ stolen' = FALSE
  /\ UNCHANGED <<doing, way, effects, late, said>>

\* One character goes to the element that has the focus.
Types ==
  /\ Doing("input_text") /\ cleared /\ typed < Len(Text)
  /\ typed' = typed + 1
  /\ content' = IF focused THEN Append(content, Text[typed']) ELSE content
  /\ UNCHANGED <<doing, way, cleared, focused, stolen, effects, late, said>>

Typed ==
  /\ Doing("input_text") /\ cleared /\ typed = Len(Text)
  /\ Finished("returned", way)
  /\ UNCHANGED <<way, typing, effects, late>>

\* fill, and the script that sets the value
Fills ==
  /\ Doing("input_text") /\ way \in {2, 4}
  /\ content' = Text
  /\ Finished("returned", way)
  /\ UNCHANGED <<way, typed, cleared, focused, stolen, effects, late>>

\* A way of entering the text raises at any of its steps; filling may be done by
\* then. The error of the last way is reported.
InputRaises ==
  /\ Doing("input_text")
  /\ content' \in IF way \in {2, 4} THEN {content, Text} ELSE {content}
  /\ typed' = 0 /\ cleared' = FALSE
  /\ IF way < LastWay THEN way' = way + 1 /\ UNCHANGED <<doing, said>>
     ELSE Finished("raised", 0) /\ UNCHANGED way
  /\ UNCHANGED <<focused, stolen, effects, late>>

\* A script of the page takes the focus while the text is typed, or gives it back.
MovesFocus ==
  /\ Doing("input_text") /\ cleared
  /\ focused' = ~focused /\ stolen' = TRUE
  /\ UNCHANGED <<doing, way, typed, cleared, content, effects, late, said>>
-----------------------------------------------------------------------------
FieldRun ==
  \/ FieldStart \/ GivesUp \/ Passes \/ Scroll \/ Skips \/ NotFound
  \/ Selects \/ OpensMenu \/ WayRaises \/ NoOption
  \/ Presses \/ PressRaises \/ PressesEach
  \/ Clears \/ Types \/ Typed \/ Fills \/ InputRaises \/ MovesFocus

PageStep ==
  \/ doing = "none" /\ Next /\ UNCHANGED fields

FieldNext == FieldRun \/ PageStep

FieldSpec == FieldInit /\ [][FieldNext]_allVars
-----------------------------------------------------------------------------
(* Properties *)

\* Every variable keeps its type.
FieldTypeOk ==
  /\ doing \in Doings \cup {"none"} /\ way \in 1..11
  /\ typed \in 0..Len(Text) /\ content \in Seq(ToSet(Text)) \cup Before
  /\ {cleared, focused, stolen} \subseteq BOOLEAN
  /\ effects \in Nat /\ late \in 0..effects

\* s is what is left of t without some of its elements.
LeavesOut(s, t) ==
  \E place \in [DOMAIN s -> DOMAIN t] :
    /\ \A k \in DOMAIN s : s[k] = t[place[k]]
    /\ \A j, k \in DOMAIN s : j < k => place[j] < place[k]

\* A field whose input is reported holds nothing that is not of the text, in its order
\* and once: neither what was there before nor what a way that failed halfway had
\* typed. It holds all of the text if the way that is reported filled it, or
\* typed it and no script moved the focus meanwhile.
EnteredTextIsExact ==
  said.kind = "returned" /\ said.of = "input_text" /\ doing = "none" =>
    /\ LeavesOut(content, Text)
    /\ said.way \in {2, 4} \/ ~stolen => content = Text

\* Selecting, pressing keys and scrolling happen once: whatever happened more than
\* that was done by a way that raised after its effect, or held down in a chord with
\* an unknown key, and nothing is tried again after a way that returned.
EffectsAreAccountedFor ==
  said.kind = "returned" /\ said.way > 0 /\ doing = "none" =>
    effects = CASE said.of = "send_keys" /\ said.way = 2 -> late + Len(Text)
                [] said.of \in {"wait", "assert_media_playing", "input_text"} -> 0
                [] OTHER -> late + 1
=============================================================================
