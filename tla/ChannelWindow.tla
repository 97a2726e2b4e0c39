--------------------------- MODULE ChannelWindow ---------------------------
(***************************************************************************)
(* The flow-control window of RNS.Channel (RNS/Channel.py): how the four   *)
(* fields window, window_max, window_min, window_flexibility and the two   *)
(* rate counters of a channel change when a packet is proved delivered and *)
(* when one times out.  The fields are the components of one record, so    *)
(* that the channel keeps them in a single variable.                       *)
(***************************************************************************)
EXTENDS Integers

CONSTANTS
  WINDOW,                   \* initial window
  WINDOW_MIN,               \* initial lower limit of the window
  WINDOW_MIN_LIMIT_MEDIUM,  \* lower limit once the link proved medium fast
  WINDOW_MIN_LIMIT_FAST,    \* lower limit once the link proved fast
  WINDOW_MAX_SLOW,          \* initial upper limit
  WINDOW_MAX_MEDIUM,        \* upper limit once the link proved medium fast
  WINDOW_MAX_FAST,          \* upper limit once the link proved fast
  WINDOW_FLEXIBILITY,       \* room a timeout leaves between the two limits
  FAST_RATE_THRESHOLD       \* deliveries at a rate before its limits apply

ASSUME WindowAssumption ==
  /\ WINDOW \in Nat /\ WINDOW_MIN \in Nat /\ WINDOW_MAX_SLOW \in Nat
  /\ 1 <= WINDOW_MIN /\ WINDOW_MIN <= WINDOW /\ WINDOW <= WINDOW_MAX_SLOW
  /\ WINDOW_MIN_LIMIT_MEDIUM \in Nat /\ WINDOW_MIN_LIMIT_FAST \in Nat
  /\ WINDOW_MAX_MEDIUM \in Nat /\ WINDOW_MAX_FAST \in Nat
  /\ 1 <= WINDOW_MIN_LIMIT_MEDIUM /\ WINDOW_MIN_LIMIT_MEDIUM <= WINDOW_MAX_MEDIUM
  /\ 1 <= WINDOW_MIN_LIMIT_FAST /\ WINDOW_MIN_LIMIT_FAST <= WINDOW_MAX_FAST
  /\ WINDOW_FLEXIBILITY \in Nat
  /\ FAST_RATE_THRESHOLD \in Nat \ {0}

\* What the code can tell about outlet.rtt: it is 0 (not measured), at most
\* RTT_FAST, at most RTT_MEDIUM, at most RTT_SLOW, or above RTT_SLOW.
RttClass == {"ZERO", "FAST", "MEDIUM", "SLOW", "VERY_SLOW"}

WindowState ==
  [window : Nat, max : Nat, min : Nat, flexibility : Nat,
   fast : 0 .. FAST_RATE_THRESHOLD + 1, medium : 0 .. FAST_RATE_THRESHOLD + 1]

\* The window of a new channel.
InitialWindow(rtt) ==
  IF rtt = "VERY_SLOW"
  THEN [window |-> 1, max |-> 1, min |-> 1, flexibility |-> 1,
        fast |-> 0, medium |-> 0]
  ELSE [window |-> WINDOW, max |-> WINDOW_MAX_SLOW, min |-> WINDOW_MIN,
        flexibility |-> WINDOW_FLEXIBILITY, fast |-> 0, medium |-> 0]

\* A rate counter is only ever compared with FAST_RATE_THRESHOLD, so values
\* above the threshold are one value.
OneMore(rounds) == IF rounds > FAST_RATE_THRESHOLD THEN rounds ELSE rounds + 1

\* The rate counters and, when one reaches the threshold, the wider limits.
RateRound(w, rtt) ==
  LET fast     == IF rtt = "FAST" THEN OneMore(w.fast)
                  ELSE IF rtt = "ZERO" THEN w.fast ELSE 0
      medium   == IF rtt = "MEDIUM" THEN OneMore(w.medium)
                  ELSE IF rtt \in {"ZERO", "FAST"} THEN w.medium ELSE 0
      toFast   == /\ rtt = "FAST" /\ w.max < WINDOW_MAX_FAST
                  /\ fast = FAST_RATE_THRESHOLD
      toMedium == /\ rtt = "MEDIUM" /\ w.max < WINDOW_MAX_MEDIUM
                  /\ medium = FAST_RATE_THRESHOLD
  IN  [w EXCEPT
         !.fast = fast, !.medium = medium,
         !.max = IF toFast THEN WINDOW_MAX_FAST
                 ELSE IF toMedium THEN WINDOW_MAX_MEDIUM ELSE @,
         !.min = IF toFast THEN WINDOW_MIN_LIMIT_FAST
                 ELSE IF toMedium THEN WINDOW_MIN_LIMIT_MEDIUM ELSE @]

\* The window after an envelope of the ring was proved delivered.
Grown(w, rtt) ==
  RateRound([w EXCEPT !.window = IF @ < w.max THEN @ + 1 ELSE @], rtt)

\* mutant: off by one at the lower limit
ShrunkPastMin(w) ==
  IF w.window >= w.min
  THEN [w EXCEPT !.window = @ - 1,
                 !.max = IF w.max > w.min + w.flexibility THEN @ - 1 ELSE @]
  ELSE w

\* The window after a transmission timed out and was repeated.
Shrunk(w) ==
  IF w.window > w.min
  THEN [w EXCEPT !.window = @ - 1,
                 !.max = IF w.max > w.min + w.flexibility THEN @ - 1 ELSE @]
  ELSE w
=============================================================================
