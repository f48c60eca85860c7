---------------------------- MODULE ExpiryFilter ----------------------------
(***************************************************************************)
(* The two answers the permission store gives to "is this grant (or this   *)
(* pairing code) still good?": the WHERE clause of its queries, over the   *)
(* text of the instants, and the Go method Active, over the instants.  One *)
(* row with an expiry is kept; the clock moves forward past it.            *)
(***************************************************************************)
EXTENDS Timestamps

CONSTANT MaxSec      \* bound: the seconds of the clock and of the expiries

Instant == [sec : 0 .. MaxSec, frac : Fraction]

VARIABLES
  expires,     \* expires_at of the row
  clock

vars == <<expires, clock>>

Init == expires \in Instant /\ clock = [sec |-> 0, frac |-> [i \in 1 .. Digits |-> 0]]

(* The row is issued anew with another expiry. *)
Reissue == expires' \in Instant /\ UNCHANGED clock

Tick == clock' \in {t \in Instant : Before(clock, t)} /\ UNCHANGED expires

Next == Reissue \/ Tick

Spec == Init /\ [][Next]_vars

-----------------------------------------------------------------------------
(* ListGrants with status active, ListActiveGrantsForCheck and             *)
(* MarkPairingCodeRedeemed: expires_at > ?.                                *)
ActiveInStore == SortsBefore(clock, expires)

(* Grant.Active and PairingCode.Active. *)
ActiveInGo == Before(clock, expires)

-----------------------------------------------------------------------------
ShortOf(s, t) ==
  /\ Written(s) \subseteq Written(t) /\ Written(s) # Written(t)
  /\ \A i \in Written(s) : s.frac[i] = t.frac[i]

(* The queries and the method disagree exactly when the clock and the      *)
(* expiry fall in one second and the written digits of one begin with all  *)
(* those of the other: there the shorter text, the earlier instant, sorts  *)
(* last.  Everywhere else the text order is the order of time.             *)
DisagreeOnlyOnPrefix ==
  (ActiveInStore # ActiveInGo) <=>
    /\ clock.sec = expires.sec
    /\ ShortOf(clock, expires) \/ ShortOf(expires, clock)
=============================================================================
