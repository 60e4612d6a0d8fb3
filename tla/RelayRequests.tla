---------------------------- MODULE RelayRequests ----------------------------
(***************************************************************************)
(* The calls of one websocket session (internal/wsrelay): a request is      *)
(* stored in session.pending and sent; the reader dispatches the pieces of  *)
(* its answer into the channel of the request, from which NonStream or      *)
(* Stream takes them.  The reader, the goroutine that waits for the end of  *)
(* the call's context and the cleanup of the session take requests from     *)
(* pending and close their channels without a common lock.                  *)
(*                                                                          *)
(* Every action is what one goroutine does up to the point where another    *)
(* may come in between.                                                     *)
(***************************************************************************)
EXTENDS Integers, Sequences

CONSTANTS Call,      \* calls; each has a message id of its own
          Streamed,  \* those of Stream; the others are of NonStream
          None,      \* no call
          Cap,       \* capacity of a request's channel (8 in the code)
          MaxBehind  \* bound: pieces of an answer its consumer has not taken

RequestsParameters ==
  /\ Streamed \subseteq Call /\ None \notin Call
  /\ Cap \in Nat \ {0} /\ MaxBehind \in Nat \ {0}

VARIABLES phase,     \* of the session: "open"; cleanup walks over pending; detached
          left,      \* what Range has not come to yet
          visiting,  \* the request Range has loaded
          incoming,  \* the message dispatch has at hand, for a request it has loaded
          pc,        \* how far request and the consumer of its channel are
          pending,   \* session.pending
          channel,   \* pendingRequest.ch
          closed,    \* requests whose channel is closed
          expired,   \* calls whose context has ended
          waiting    \* calls with a goroutine that waits for that

VARIABLES crashed,   \* a panic that no one recovers from has ended the program
          begun,     \* NonStream's streamMode: the consumer has taken a piece
          behind,    \* history: pieces read and not, or not yet, taken by the consumer
          answered,  \* history: calls of which the last message was read
          lost       \* history: calls of which a message found no room

session == <<phase, left, visiting>>
history == <<begun, behind, answered, lost>>
vars == <<session, incoming, pc, pending, channel, closed, expired, waiting, crashed, history>>

Kind == {"piece", "end", "response", "error"}
Terminal == {"end", "response", "error"}
NoMessage == [call |-> None, kind |-> "piece"]
Over == {"complete", "failed", "cancelled"}

TypeOK ==
  /\ phase \in {"open", "walk", "detached"}
  /\ left \subseteq Call /\ visiting \in Call \cup {None}
  /\ incoming \in [call : Call, kind : Kind] \cup {NoMessage}
  /\ pc \in [Call -> {"idle", "store", "send", "receive"} \cup Over]
  /\ pending \subseteq Call
  /\ channel \in [Call -> Seq(Kind)] /\ \A c \in Call : Len(channel[c]) <= Cap
  /\ closed \subseteq Call /\ expired \subseteq Call /\ waiting \subseteq Call
  /\ crashed \in BOOLEAN
  /\ begun \subseteq Call /\ behind \in [Call -> 0..MaxBehind]
  /\ answered \subseteq Call /\ lost \subseteq Call

Init ==
  /\ phase = "open" /\ left = {} /\ visiting = None
  /\ incoming = NoMessage
  /\ pc = [c \in Call |-> "idle"]
  /\ pending = {} /\ closed = {} /\ expired = {} /\ waiting = {}
  /\ channel = [c \in Call |-> <<>>]
  /\ crashed = FALSE
  /\ behind = [c \in Call |-> 0]
  /\ begun = {} /\ answered = {} /\ lost = {}

-----------------------------------------------------------------------------
(* Requests. *)

\* LoadAndDelete, and close if there was an entry.
DeleteAndClose(c) ==
  /\ pending' = pending \ {c}
  /\ closed' = IF c \in pending THEN closed \cup {c} ELSE closed

Goto(c, step) == pc' = [pc EXCEPT ![c] = step]

\* Manager.Send finds the session as long as it is in the map.
Lookup(c) ==
  /\ pc[c] = "idle"
  /\ Goto(c, IF phase = "detached" THEN "failed" ELSE "store")
  /\ UNCHANGED <<session, incoming, pending, channel, closed, expired, waiting, crashed, history>>

Store(c) ==
  /\ pc[c] = "store"
  /\ pending' = pending \cup {c}
  /\ Goto(c, "send")
  /\ UNCHANGED <<session, incoming, channel, closed, expired, waiting, crashed, history>>

\* session.send without its look at closed.
SendUnchecked(c, written) ==
  /\ pc[c] = "send"
  /\ IF c \in pending /\ written
     THEN /\ waiting' = waiting \cup {c}
          /\ Goto(c, "receive")
          /\ UNCHANGED <<pending, closed>>
     ELSE /\ DeleteAndClose(c)
          /\ Goto(c, "failed")
          /\ UNCHANGED waiting
  /\ UNCHANGED <<session, incoming, channel, expired, crashed, history>>

\* The entry is gone when the session was detached meanwhile; send refuses once
\* closed is closed, and may fail to write.
Send(c, written) ==
  /\ pc[c] = "send"
  /\ IF c \in pending /\ phase = "open" /\ written
     THEN /\ waiting' = waiting \cup {c}
          /\ Goto(c, "receive")
          /\ UNCHANGED <<pending, closed>>
     ELSE /\ DeleteAndClose(c)
          /\ Goto(c, "failed")
          /\ UNCHANGED waiting
  /\ UNCHANGED <<session, incoming, channel, expired, crashed, history>>

Expire(c) ==
  /\ pc[c] # "idle" /\ c \notin expired
  /\ expired' = expired \cup {c}
  /\ UNCHANGED <<session, incoming, pc, pending, channel, closed, waiting, crashed, history>>

\* The goroutine of request; select may choose either when both are ready.
Withdraw(c) ==
  /\ c \in waiting
  /\ waiting' = waiting \ {c}
  /\ \/ c \in expired /\ DeleteAndClose(c)
     \/ phase # "open" /\ UNCHANGED <<pending, closed>>
  /\ UNCHANGED <<session, incoming, pc, channel, expired, crashed, history>>

-----------------------------------------------------------------------------
(* Answers. *)

\* The reader reads the next message for c and loads its request.  A message for
\* which there is none changes nothing.
Read(c, kind) ==
  /\ phase # "detached" /\ incoming = NoMessage
  /\ c \in pending /\ pc[c] \notin {"store", "send"}
  /\ IF kind = "piece"
     THEN /\ behind[c] < MaxBehind
          /\ behind' = [behind EXCEPT ![c] = @ + 1]
          /\ UNCHANGED answered
     ELSE /\ answered' = answered \cup {c}
          /\ UNCHANGED behind
  /\ incoming' = [call |-> c, kind |-> kind]
  /\ UNCHANGED <<session, pc, pending, channel, closed, expired, waiting, crashed, begun, lost>>

\* A channel without a limit.
OfferUnbounded(c, kind) ==
  IF c \in closed
  THEN crashed' = TRUE /\ UNCHANGED <<channel, lost>>
  ELSE /\ channel' = [channel EXCEPT ![c] = Append(@, kind)]
       /\ UNCHANGED <<crashed, lost>>

\* select with a default: what finds no room is given up, but a send on a closed
\* channel panics.
Offer(c, kind) ==
  IF c \in closed
  THEN crashed' = TRUE /\ UNCHANGED <<channel, lost>>
  ELSE /\ UNCHANGED crashed
       /\ IF Len(channel[c]) < Cap
          THEN /\ channel' = [channel EXCEPT ![c] = Append(@, kind)]
               /\ UNCHANGED lost
          ELSE /\ lost' = lost \cup {c}
               /\ UNCHANGED channel

\* The rest of dispatch.
Dispatch ==
  /\ incoming # NoMessage
  /\ Offer(incoming.call, incoming.kind)
  /\ IF incoming.kind \in Terminal
     THEN DeleteAndClose(incoming.call)
     ELSE UNCHANGED <<pending, closed>>
  /\ incoming' = NoMessage
  /\ UNCHANGED <<session, pc, expired, waiting, begun, behind, answered>>

\* NonStream or Stream takes a message.
Take(c) ==
  /\ pc[c] = "receive" /\ channel[c] # <<>>
  /\ channel' = [channel EXCEPT ![c] = Tail(@)]
  /\ IF Head(channel[c]) = "piece"
     THEN /\ behind' = [behind EXCEPT ![c] = @ - 1]
          /\ begun' = begun \cup {c}
          /\ UNCHANGED pc
     ELSE /\ Goto(c, IF Head(channel[c]) = "error" THEN "failed" ELSE "complete")
          /\ UNCHANGED <<behind, begun>>
  /\ UNCHANGED <<session, incoming, pending, closed, expired, waiting, crashed,
                 answered, lost>>

\* The channel is closed and empty.  NonStream takes what it has for the answer.
TakeClosed(c) ==
  /\ pc[c] = "receive" /\ channel[c] = <<>> /\ c \in closed
  /\ Goto(c, IF c \in begun \ Streamed THEN "complete" ELSE "failed")
  /\ UNCHANGED <<session, incoming, pending, channel, closed, expired, waiting, crashed, history>>

Abandon(c) ==
  /\ pc[c] = "receive" /\ c \in expired
  /\ Goto(c, "cancelled")
  /\ UNCHANGED <<session, incoming, pending, channel, closed, expired, waiting, crashed, history>>

-----------------------------------------------------------------------------
(* session.cleanup, called once: by the reader, the heartbeat, the handler of a *)
(* session that replaces this one, or Stop.                                     *)

Cleanup ==
  /\ phase = "open"
  /\ phase' = "walk"
  /\ left' = pending
  /\ UNCHANGED <<visiting, incoming, pc, pending, channel, closed, expired, waiting,
                 crashed, history>>

\* Range may or may not come to a request that was stored after it began.  An entry
\* whose channel is closed is one it has been at.
Visit(c) ==
  /\ phase = "walk" /\ visiting = None
  /\ c \in pending \ closed
  /\ left' = left \ {c}
  /\ visiting' = c
  /\ UNCHANGED <<phase, incoming, pc, pending, channel, closed, expired, waiting,
                 crashed, history>>

\* Without the error message.
CloseVisited ==
  /\ visiting # None
  /\ closed' = closed \cup {visiting}
  /\ visiting' = None
  /\ UNCHANGED <<phase, left, incoming, pc, pending, channel, expired, waiting,
                 crashed, history>>

\* The callback of Range: an error message, then the channel is closed.
FailVisited ==
  /\ visiting # None
  /\ Offer(visiting, "error")
  /\ closed' = closed \cup {visiting}
  /\ visiting' = None
  /\ UNCHANGED <<phase, left, incoming, pc, pending, expired, waiting, begun, behind, answered>>

\* pending is emptied, the connection closed, and the session leaves the map.
Detach ==
  /\ phase = "walk" /\ visiting = None
  /\ left \cap pending = {}
  /\ phase' = "detached"
  /\ pending' = {} /\ left' = {}
  /\ UNCHANGED <<visiting, incoming, pc, channel, closed, expired, waiting, crashed, history>>

-----------------------------------------------------------------------------
Step ==
  \/ \E c \in Call : \/ Lookup(c) \/ Store(c) \/ Expire(c) \/ Withdraw(c)
                     \/ Take(c) \/ TakeClosed(c) \/ Abandon(c) \/ Visit(c)
                     \/ \E written \in BOOLEAN : Send(c, written)
                     \/ \E kind \in Kind : Read(c, kind)
  \/ Dispatch \/ Cleanup \/ FailVisited \/ Detach

Next == ~crashed /\ Step

Spec == Init /\ [][Next]_vars

-----------------------------------------------------------------------------
(* Properties. *)

\* An answer that NonStream or Stream reports as complete has every piece the
\* provider sent, unless a message of it found the channel full, or, for NonStream,
\* the context ended first: a session that is cleaned up in the middle of an answer
\* is told apart from the end of it (dispatch, cleanup, NonStream, Stream).
CompleteIsWhole ==
  \A c \in Call : pc[c] = "complete" =>
    \/ c \in answered /\ behind[c] = 0
    \/ c \in lost
    \/ c \in expired \ Streamed

\* No request is sent on a channel after it was closed.  Send promises a channel
\* that yields response messages (manager.go:162), and dispatch and cleanup never
\* send on one that a failed send or the goroutine of a cancelled call has closed after
\* they loaded the request: that would end the program.
NoSendOnClosed == ~crashed

\* When the session is gone, no call waits for an answer that cannot come: its
\* channel is closed, also if its request was stored while the session was cleaned
\* up, and its consumer's next receive returns (request, cleanup).
NobodyStranded ==
  phase = "detached" => \A c \in Call : pc[c] = "receive" => c \in closed

=============================================================================
