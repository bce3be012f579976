------------------------------ MODULE Timestamps ------------------------------
(***************************************************************************)
(* How GridBank compares instants.  Go code compares time.Time values; SQL *)
(* compares the TEXT columns that storage.FormatTime wrote, i.e. RFC3339   *)
(* with nanoseconds, which drops the trailing zeros of the fraction and    *)
(* the whole fraction when it is zero.  'Z' sorts after '.' and after      *)
(* every digit, so "07Z" > "07.5Z" although 07 is the earlier instant.     *)
(*                                                                         *)
(* The modules of this project count instants in half seconds: an even     *)
(* tick is a whole second, an odd one has the fraction ".5".  TextRank     *)
(* orders ticks as SQL orders their texts; it swaps the two ticks of each  *)
(* second.  StampLess is the same comparison done on the characters, for   *)
(* fractions of several digits; SchedulerMC checks one against the other. *)
(***************************************************************************)
EXTENDS Integers, Sequences

TextRank(t) == IF t % 2 = 0 THEN t + 1 ELSE t - 1

TextLess(s, t)   == TextRank(s) < TextRank(t)
TextAtMost(s, t) == TextRank(s) <= TextRank(t)

-------------------------------------------------------------------------------
(* The text itself: a second, and the fraction as a sequence of digits.      *)

\* '.' < '0'..'9' < 'Z' in the byte order SQLite compares TEXT by.
Dot  == -1
Zulu == 10

\* The fraction's digits without trailing zeros (Go's layout "999999999").
Stripped(digits) ==
  LET kept == {i \in DOMAIN digits : digits[i] # 0}
      last == IF kept = {} THEN 0 ELSE CHOOSE i \in kept : \A k \in kept : k <= i
  IN  SubSeq(digits, 1, last)

\* storage.FormatTime.  The date, hour and minute are the same for all the
\* instants compared here; second is one character, its digits are in order.
Stamp(second, digits) ==
  LET fraction == Stripped(digits)
  IN  <<second>> \o (IF fraction = <<>> THEN <<>> ELSE <<Dot>> \o fraction) \o <<Zulu>>

\* SQLite's BINARY collation (memcmp): decided at the first difference.
StampLess(a, b) ==
  \E i \in DOMAIN a \cap DOMAIN b :
    /\ a[i] < b[i]
    /\ \A k \in 1..(i - 1) : a[k] = b[k]

===============================================================================
