----------------------------- MODULE Timestamps -----------------------------
(***************************************************************************)
(* How the stores keep time: UTC instants written with time.RFC3339Nano    *)
(* and compared, by SQL, as text.  RFC3339Nano drops the trailing zeros of *)
(* the fraction, and the dot with the last of them, so the texts of one    *)
(* second differ in length: ...:05Z, ...:05.1Z, ...:05.12Z.                *)
(***************************************************************************)
EXTENDS Integers, Sequences

CONSTANTS
  Base,      \* the digits are 0 .. Base - 1; 10 in the code
  Digits     \* digits of a fraction of a second; 9 in the code

ASSUME TimeAssumption == Base \in Nat \ {0} /\ Digits \in Nat

(* An instant: whole seconds (the fixed-width prefix, year to second) and  *)
(* the digits of its fraction.                                             *)
Fraction == [1 .. Digits -> 0 .. Base - 1]
Time == [sec : Nat, frac : Fraction]

FirstDifference(f, g, k) == f[k] # g[k] /\ \A i \in 1 .. k - 1 : f[i] = g[i]

(* time.Time.Before. *)
Before(s, t) ==
  \/ s.sec < t.sec
  \/ /\ s.sec = t.sec
     /\ \E k \in 1 .. Digits : FirstDifference(s.frac, t.frac, k) /\ s.frac[k] < t.frac[k]

(* The characters that follow the seconds, in the order of their codes;    *)
(* Blank stands for the end of the text.                                   *)
Blank == 0
Dot == 1
Digit(d) == d + 2
Zulu == Base + 2

(* The places of the digits that are written: all up to the last that is not 0. *)
Written(t) == {i \in 1 .. Digits : \E j \in i .. Digits : t.frac[j] # 0}

(* Slip: a layout of fixed width, every digit written. *)
FormatFixed(t) ==
  [i \in 0 .. Digits + 2 |->
    CASE i = 0 -> t.sec
      [] i = 1 -> Dot
      [] i = Digits + 2 -> Zulu
      [] OTHER -> Digit(t.frac[i - 1])]

(* Time.Format(time.RFC3339Nano): the seconds at 0, the dot at 1, digit i  *)
(* at i + 1, and the Z where the text ends.                                *)
Format(t) ==
  [i \in 0 .. Digits + 2 |->
    CASE i = 0 -> t.sec
      [] i = 1 -> IF Written(t) = {} THEN Zulu ELSE Dot
      [] i - 1 \in Written(t) -> Digit(t.frac[i - 1])
      [] i - 1 \notin Written(t) /\ i - 2 \in Written(t) -> Zulu
      [] OTHER -> Blank]

DiffersAt(a, b, k) == a[k] < b[k] /\ \A i \in 0 .. k - 1 : a[i] = b[i]

(* Text comparison in SQL (SQLite's BINARY collation). *)
TextLess(a, b) == \E k \in 0 .. Digits + 2 : DiffersAt(a, b, k)

(* expires_at > ?, timestamp <= ? and ORDER BY issued_at all compare so. *)
SortsBefore(s, t) == TextLess(Format(s), Format(t))

NoLater(s, t) == ~ SortsBefore(t, s)
=============================================================================
