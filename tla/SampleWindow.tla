---------------------------- MODULE SampleWindow ----------------------------
(***************************************************************************)
(* What an in-memory channel buffer promises to the code that reads it.    *)
(* Samples of a channel are numbered 1, 2, ... in the order in which they  *)
(* are published.  The buffer shows a window of at most MaxLen of them,    *)
(* always the most recent ones, and a read that returns data returns the   *)
(* end of the window of the channel it asked for, as long as it asked or   *)
(* as long as the window is at that moment.  The deque of                  *)
(* DequeInMemoryPublisher is this window; ChannelBuffer shows that the     *)
(* ring of NumpyInMemoryPublisher implements it.                           *)
(***************************************************************************)
EXTENDS Naturals, Sequences

CONSTANTS Channels, Readers, MaxLen, Lengths, MaxBatch

VARIABLES
  produced,   \* how many samples of each channel have been published
  window,     \* the samples kept, for each channel that exists
  closed,     \* close() has been called
  request,    \* the channel and the length of each reader's call
  answer      \* what the last read of each reader returned, <<>> if it raised

wvars == <<produced, window, closed, request, answer>>

Smaller(a, b) == IF a <= b THEN a ELSE b

Latest(s, n) == SubSeq(s, Len(s) - n + 1, Len(s))

\* What deque(maxlen) keeps of a window extended by xs.
Keep(s, xs) ==
  LET all == s \o xs
  IN  Latest(all, Smaller(Len(all), MaxLen))

\* The next n samples of channel c.
Fresh(c, n) == [i \in 1..n |-> produced[c] + i]

WInit ==
  /\ produced = [c \in Channels |-> 0]
  /\ window = [c \in {} |-> <<>>]
  /\ closed = FALSE
  /\ request = [r \in Readers |-> [ch |-> CHOOSE c \in Channels : TRUE, len |-> 1]]
  /\ answer = [r \in Readers |-> <<>>]

WPublish ==
  \E S \in SUBSET Channels \ {{}}, n \in 0..MaxBatch :
    /\ produced' = [c \in Channels |-> IF c \in S THEN produced[c] + n ELSE produced[c]]
    /\ window' = [c \in DOMAIN window \cup S |->
                    LET old == IF c \in DOMAIN window THEN window[c] ELSE <<>>
                    IN  IF c \in S THEN Keep(old, Fresh(c, n)) ELSE old]
    /\ UNCHANGED <<closed, request, answer>>

WClose ==
  /\ closed' = TRUE
  /\ window' = [c \in {} |-> <<>>]
  /\ UNCHANGED <<produced, request, answer>>

\* A call begins.
WAsk(r) ==
  /\ \E c \in Channels, n \in Lengths : request' = [request EXCEPT ![r] = [ch |-> c, len |-> n]]
  /\ answer' = [answer EXCEPT ![r] = <<>>]
  /\ UNCHANGED <<produced, window, closed>>

\* It returns what it asked for, or what there is of it.
WAnswer(r) ==
  LET c == request[r].ch
  IN  /\ c \in DOMAIN window
      /\ answer' = [answer EXCEPT ![r] = Latest(window[c], Smaller(request[r].len, Len(window[c])))]
      /\ UNCHANGED <<produced, window, closed, request>>

\* It raises.
WForget(r) ==
  /\ answer' = [answer EXCEPT ![r] = <<>>]
  /\ UNCHANGED <<produced, window, closed, request>>

WNext ==
  \/ WPublish
  \/ WClose
  \/ \E r \in Readers : WAsk(r) \/ WAnswer(r) \/ WForget(r)

WSpec == WInit /\ [][WNext]_wvars
=============================================================================
