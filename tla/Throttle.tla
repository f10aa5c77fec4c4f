------------------------------ MODULE Throttle ------------------------------
(***************************************************************************)
(* Requests of one client through the scan detector                        *)
(* (internal/middleware/scan_detector.go): its arrivals of the last second *)
(* are kept, one more than a threshold slows it down, and an entry that    *)
(* was not used for five minutes is forgotten.  The clock stands still     *)
(* while the tracker's mutex is held; a request is one step.               *)
(***************************************************************************)
EXTENDS Lists, FiniteSets

CONSTANTS
  Second, TTL,    \* one second and cleanupTTL, in ticks
  Threshold,      \* ScanThresholdPerSec
  Ranges,         \* Range headers: <<>>, or first and last position, -1 for none
  Significant,    \* 32 KB, in units of a position
  MaxTime         \* bound on the clock

\* An entry is not forgotten before its requests are too old to count.
WindowGiven == {Second, TTL, Threshold, MaxTime} \subseteq Nat /\ TTL >= Second

VARIABLES
  now,
  known,          \* the client has an entry
  requests,       \* its requests: times of arrival
  lastAccess,
  arrivals,       \* history: times of all requests
  verdict         \* of the last request: whether it is for a video file (isVideoRequest),
                  \* whether it streams, and whether it was delayed

vars == <<now, known, requests, lastAccess, arrivals, verdict>>

Init ==
  /\ now = 0 /\ known = FALSE /\ requests = <<>> /\ lastAccess = 0
  /\ arrivals = <<>> /\ verdict = [video |-> FALSE, stream |-> FALSE, delayed |-> FALSE]

\* isSignificantRange: to the end of the file, or more than 32 KB.
isSignificantRange(r) ==
  r # <<>> /\ (r[2] = -1 \/ (r[1] # -1 /\ r[2] - r[1] + 1 > Significant))

\* Mutant: a request exactly one second old still counts.
ValidInclusive(s) == Keep(s, {t \in Nat : t >= now - Second})

Valid(s) == Keep(s, {t \in Nat : t > now - Second})

recordRequest ==
  /\ requests' = Valid(Append(IF known THEN requests ELSE <<>>, now))
  /\ known' = TRUE /\ lastAccess' = now
  /\ arrivals' = Append(arrivals, now)

\* ScanDetector: recorded, then passed or delayed.
Request(video, range) ==
  /\ recordRequest
  /\ LET stream == video /\ isSignificantRange(range) IN
       verdict' = [video |-> video, stream |-> stream,
                   delayed |-> ~stream /\ Len(requests') > Threshold]
  /\ UNCHANGED now

Stale == now - lastAccess > TTL

cleanup ==
  /\ known /\ Stale /\ known' = FALSE /\ requests' = <<>> /\ lastAccess' = 0
  /\ UNCHANGED <<now, arrivals, verdict>>

Tick ==
  /\ now < MaxTime /\ now' = now + 1
  /\ UNCHANGED <<known, requests, lastAccess, arrivals, verdict>>

\* Bound: at most two more than the threshold arrive in any tick.
Next ==
  \/ \E video \in BOOLEAN, range \in Ranges :
       /\ Cardinality({i \in DOMAIN arrivals : arrivals[i] = now}) < Threshold + 2
       /\ Request(video, range)
  \/ cleanup \/ Tick

Spec == Init /\ [][Next]_vars

-----------------------------------------------------------------------------
TypeOK ==
  /\ now \in 0..MaxTime /\ lastAccess \in 0..now /\ known \in BOOLEAN
  /\ requests \in Seq(0..now) /\ arrivals \in Seq(0..now)

\* A request is delayed exactly when it does not stream and more than the threshold
\* arrived within the last second, this one included, whatever was forgotten.
DelayedAsCounted ==
  [][arrivals' # arrivals =>
       LET recent == {i \in DOMAIN arrivals' : arrivals'[i] > now - Second}
       IN  verdict'.delayed <=> ~verdict'.stream /\ Cardinality(recent) > Threshold]_vars

\* "Video requests get priority and are never throttled" (comment of isVideoRequest,
\* scan_detector.go:254).  ScanDetector passes only those with a significant range; the
\* others, which probe a video, are delayed during a scan like any request.
VideoNeverThrottled == [][arrivals' # arrivals /\ verdict'.video => ~verdict'.delayed]_vars

\* Headers of the run: none, and one from the first byte to the end.
ProbeAndPlay == {<<>>, <<0, -1>>}
=============================================================================
