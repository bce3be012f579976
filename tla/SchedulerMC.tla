----------------------------- MODULE SchedulerMC -----------------------------
(* Small instances of the scheduler for TLC. *)
EXTENDS Scheduler, FiniteSets, TLC

CONSTANTS w1, w2, u1

\* Two processes that run under one user account: only the lease token and
\* the version tell them apart.
OneAccount == (w1 :> u1) @@ (w2 :> u1)

\* TextRank orders half-second ticks as SQLite orders their texts ...
ASSUME HalfSecondsAgree ==
  LET StampOf(t) == Stamp(t \div 2, <<IF t % 2 = 0 THEN 0 ELSE 5>>)
  IN  \A s, t \in 0..15 : TextLess(s, t) <=> StampLess(StampOf(s), StampOf(t))

\* ... and two instants of one second compare the wrong way around exactly
\* when the digits of the earlier are a proper prefix of the later's.
ASSUME PrefixesAreInverted ==
  LET Fractions == {Stripped(<<a, b>>) : a, b \in {0, 1, 5, 9}}
      At(f, i)  == IF i \in DOMAIN f THEN f[i] ELSE 0
      Before(f, g) == At(f, 1) < At(g, 1) \/ (At(f, 1) = At(g, 1) /\ At(f, 2) < At(g, 2))
      ProperPrefix(f, g) == Len(f) < Len(g) /\ SubSeq(g, 1, Len(f)) = f
  IN  \A f, g \in Fractions :
        Before(f, g) => (StampLess(Stamp(0, g), Stamp(0, f)) <=> ProperPrefix(f, g))

Symmetric == Permutations({w1, w2})
===============================================================================
