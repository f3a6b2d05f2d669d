--------------------------------- MODULE Names ---------------------------------
(***************************************************************************)
(* What the library asks of a name, character by character: containsANE    *)
(* (ioreport.go), sanitizeMetricName (types.go) and parseFloat (stats.go). *)
(* A name is a sequence of characters and grows by one a step, so that the *)
(* invariants speak of every name up to a length.                          *)
(***************************************************************************)
EXTENDS Lists

CONSTANTS
    Chars,      \* the characters names are built from
    MaxLen,     \* bound on their length
    LowerOf,    \* from each capital letter to the small one
    DigitValue  \* from each digit to its value

Upper == DOMAIN LowerOf
Lower == {LowerOf[c] : c \in Upper}
Digits == DOMAIN DigitValue
IsLetter(c) == c \in Upper \union Lower

ASSUME MaxLenAssumption == MaxLen \in Nat

\* As in ASCII: capitals, small letters, digits and the rest have no character in
\* common.
ASSUME AlphabetAssumption ==
    /\ Upper \intersect Lower = {}
    /\ \A c \in Digits : ~IsLetter(c)
    /\ \A c \in {"-", "."} : ~IsLetter(c) /\ c \notin Digits
    /\ \A c \in {"A", "N", "E", "a", "n", "e"} : IsLetter(c)
    /\ DigitValue \in [Digits -> 0..9]

VARIABLE spelled

Blank == spelled = <<>>

Spell ==
    \/ Len(spelled) < MaxLen /\ \E c \in Chars : spelled' = Append(spelled, c)
    \/ Len(spelled) = MaxLen /\ UNCHANGED spelled

Spelling == Blank /\ [][Spell]_spelled

ToLower(c) == IF c \in Upper THEN LowerOf[c] ELSE c

\* "ane" in either case, at i.
ANEAt(s, i) == s[i] \in {"a", "A"} /\ s[i + 1] \in {"n", "N"} /\ s[i + 2] \in {"e", "E"}

\* Seeded bug: the word boundary is not looked at.
ContainsANE_Anywhere(s) == \E i \in 1..(Len(s) - 2) : ANEAt(s, i)

\* With no letter before it.
ContainsANE(s) ==
    \E i \in 1..(Len(s) - 2) : ANEAt(s, i) /\ (i = 1 \/ ~IsLetter(s[i - 1]))

\* Letters in lower case and digits; any run of others becomes one hyphen, which
\* is not written first (prevHyphen starts true).
Write(out, c) ==
    IF IsLetter(c) \/ c \in Digits
      THEN [b |-> Append(out.b, ToLower(c)), prevHyphen |-> FALSE]
    ELSE IF out.prevHyphen THEN out
    ELSE [b |-> Append(out.b, "-"), prevHyphen |-> TRUE]

Written(s) == FoldLeft(Write, [b |-> <<>>, prevHyphen |-> TRUE], s)

\* Seeded bug: the last hyphen is kept.
Sanitize_KeepsTail(s) == Written(s).b

\* A hyphen that is last is cut.
SanitizeMetricName(s) ==
    LET b == Written(s).b
    IN  IF b # <<>> /\ b[Len(b)] = "-" THEN Front(b) ELSE b

\* Seeded bug: the number starts again after any other character.
Read_Restarts(f, c) ==
    IF c \in Digits
      THEN [f EXCEPT !.num = 10 * @ + DigitValue[c], !.den = IF f.decimal THEN 10 * @ ELSE @]
    ELSE IF c = "." THEN [f EXCEPT !.decimal = TRUE]
    ELSE [f EXCEPT !.num = 0]

\* Everything but digits and the first dot is passed over.
Read(f, c) ==
    IF c \in Digits
      THEN [f EXCEPT !.num = 10 * @ + DigitValue[c], !.den = IF f.decimal THEN 10 * @ ELSE @]
    ELSE IF c = "." THEN [f EXCEPT !.decimal = TRUE]
    ELSE f

\* The value is num / den.
ParseFloat(s) == FoldLeft(Read, [num |-> 0, den |-> 1, decimal |-> FALSE], s)

-----------------------------------------------------------------------------
(* Properties.                                                             *)

\* The words of s: the longest stretches of letters.
IsWord(s, first, last) ==
    /\ \A k \in first..last : IsLetter(s[k])
    /\ first = 1 \/ ~IsLetter(s[first - 1])
    /\ last = Len(s) \/ ~IsLetter(s[last + 1])

Words(s) ==
    {SubSeq(s, p[1], p[2]) :
        p \in {q \in (1..Len(s)) \X (1..Len(s)) : q[1] <= q[2] /\ IsWord(s, q[1], q[2])}}

\* ioreport.go:225-228: a name is the ANE's if one of its words starts with
\* "ane", and not if "ane" only occurs inside a word such as "VLane".
ANEStartsAWord ==
    ContainsANE(spelled) <=> \E w \in Words(spelled) : Len(w) >= 3 /\ ANEAt(w, 1)

\* types.go:266: the metric name is letters in lower case, digits and single
\* hyphens between them, and no letter or digit of the channel's name is lost.
Alphanumeric == Upper \union Lower \union Digits
SanitizedForm ==
    LET b == SanitizeMetricName(spelled)
        kept == Keep(spelled, Alphanumeric)
    IN  /\ \A i \in 1..Len(b) : b[i] \in Lower \union Digits \union {"-"}
        /\ \A i \in 1..Len(b) : b[i] = "-" =>
              i > 1 /\ i < Len(b) /\ b[i + 1] # "-"
        /\ Keep(b, Alphanumeric) = [i \in 1..Len(kept) |-> ToLower(kept[i])]

\* stats.go:202: of a name that is a number, parseFloat is that number; what
\* stands around or between its digits does not matter.  The digits before the
\* first dot are the whole part.
Value(digits) == FoldLeft(LAMBDA n, c : 10 * n + DigitValue[c], 0, digits)
ParsesNumbers ==
    LET plain == Keep(spelled, Digits \union {"."})
        f == ParseFloat(spelled)
    IN  /\ ParseFloat(plain) = f
        /\ f.num = Value(Keep(spelled, Digits))
        /\ \A i \in 1..Len(plain) :
              plain[i] = "." /\ (\A j \in 1..(i - 1) : plain[j] # ".") =>
                  LET whole == Value(Keep(SubSeq(plain, 1, i), Digits))
                  IN  f.den * whole <= f.num /\ f.num < f.den * (whole + 1)
=============================================================================
