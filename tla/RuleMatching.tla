----------------------------- MODULE RuleMatching -----------------------------
(***************************************************************************)
(* What a rule says and whom it is about: validate() and matches() of      *)
(* access/rules.py.  A text is a sequence of characters.                   *)
(***************************************************************************)
EXTENDS Integers, Sequences, FiniteSets, SequencesExt

CONSTANTS
    None,       \* no value, no row
    Space,      \* the character strip() takes off
    LowerOf     \* what casefold() and lower() make of each character

ASSUME CharactersAssumption == Space \in DOMAIN LowerOf

Fold(text) == [i \in DOMAIN text |-> LowerOf[text[i]]]

Strip(text) ==
    LET ink == {i \in DOMAIN text : text[i] # Space}
    IN  IF ink = {} THEN <<>> ELSE SubSeq(text, Min(ink), Max(ink))

Plain(text) == Fold(Strip(text))
Present(value) == value # None /\ Strip(value) # <<>>

Valueless == {"is_set", "is_not_set"}
Operators == Valueless \cup {"equals", "not_equals", "contains", "starts_with"}
Attributes == {"department", "job_title", "email", "user_name"}

(* A condition is [attribute, operator, value].                            *)
Valid(c) ==
    /\ c.attribute \in Attributes
    /\ c.operator \in Operators
    /\ Present(c.value) <=> c.operator \notin Valueless

Within(part, text) ==
    \E i \in 0 .. Len(text) - Len(part) : SubSeq(text, i + 1, i + Len(part)) = part

(* c.value is read only by the operators that compare.                     *)
Matches(c, user) ==
    LET actual == user[c.attribute]
        left == Plain(actual)
        right == Plain(c.value)
    IN  CASE c.operator = "is_set"     -> Present(actual)
          [] c.operator = "is_not_set" -> ~Present(actual)
          [] ~Present(actual)          -> FALSE
          [] c.operator = "equals"      -> left = right
          [] c.operator = "not_equals"  -> left # right
          [] c.operator = "contains"    -> Within(right, left)
          [] c.operator = "starts_with" -> IsPrefix(right, left)
=============================================================================
