--------------------------- MODULE MeasurementFeed ---------------------------
(***************************************************************************)
(* What the way of a measurement from the sensor to the broker promises: a *)
(* measurement may get lost, but it is published at most once, and never   *)
(* after one that was acquired later.  As messages are retained, the       *)
(* broker's last message of a topic is then the newest it was ever given.  *)
(*                                                                         *)
(* The measurement <<r, k>> is the k-th of run r; k stands for its topic.  *)
(***************************************************************************)
EXTENDS Integers

CONSTANTS MaxRuns, Count

VARIABLES
  inFlight,    \* measurements acquired and neither published nor lost
  published    \* the last measurement published, or None

feedVars == <<inFlight, published>>

Measurements == (1..MaxRuns) \X (1..Count)
None == <<0, 0>>

Before(m, n) == m[1] < n[1] \/ (m[1] = n[1] /\ m[2] < n[2])

FeedInit == inFlight = {} /\ published = None

\* Nothing in flight or published is as new as the measurement.
Acquire(m) ==
  /\ \A n \in inFlight \union {published} : Before(n, m)
  /\ inFlight' = inFlight \union {m}
  /\ UNCHANGED published

Lose ==
  /\ inFlight' \subseteq inFlight
  /\ UNCHANGED published

\* Whatever was acquired earlier is lost at the latest now.
Publish(m) ==
  /\ m \in inFlight
  /\ published' = m
  /\ inFlight' \subseteq {n \in inFlight : Before(m, n)}

FeedNext == Lose \/ \E m \in Measurements : Acquire(m) \/ Publish(m)

FeedSpec == FeedInit /\ [][FeedNext]_feedVars

\* What was published last is never followed by something older, nor by itself.
NeverOlder == [][published' # published => Before(published, published')]_feedVars
==============================================================================
