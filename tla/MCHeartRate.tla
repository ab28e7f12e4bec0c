---------------------------- MODULE MCHeartRate ----------------------------
(* Either sketch for TLC. *)
EXTENDS HeartRate, TLC

\* Rings in which order shows.
Rates == Heart :> {1, 2} @@ Battery :> {1}
Sizes == Heart :> 2 @@ Battery :> 1

\* Samples that are more than the heart rate's, one at a time.
Samples(s) == {taken[s]} \cup {buffer[s][k] : k \in Slot(s)}
RingsMatter ==
    \/ NoData \notin {buffer[Heart][k] : k \in Slot(Heart)}
    \/ 2 \in Samples(Heart)
    \/ 1 \in Samples(Battery)

\* The bound of the run: they do not come with all that can happen to links.
RingsOrLinks == RingsMatter => links <= 1 /\ failures = 0 /\ Len(evs) <= 1

BoundedSpec == EitherInit /\ [][EitherNext /\ RingsOrLinks']_heartVars
=============================================================================
