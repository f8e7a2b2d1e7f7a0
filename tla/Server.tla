------------------------------- MODULE Server -------------------------------
(***************************************************************************)
(* The control socket: serve and handle_client (daemon/src/server.rs) on   *)
(* one side, request (proto/src/lib.rs) on the other.  One connection      *)
(* carries one request line and one response line.  The daemon takes the   *)
(* connections one at a time, in the order they were made; a client gives  *)
(* up after its timeout, or is killed, at any time, and may then try       *)
(* again; the line it has written stays in the socket all the same.        *)
(*                                                                         *)
(* Timeouts are steps that may happen whenever what they bound has not     *)
(* happened yet.  A stalled client is one that takes no step.  The backlog *)
(* of the listening socket is external, and taken as large enough.         *)
(***************************************************************************)
EXTENDS Naturals, Sequences

CONSTANTS
  Clients,
  MaxTries,   \* bound: connections each client makes
  MaxExits    \* bound: how often a signal stops the daemon

ASSUME ServerAssumption == MaxTries \in Nat \ {0} /\ MaxExits \in Nat

VARIABLES
  tries,     \* client -> the number of its current connection
  calling,   \* client -> whether request is under way
  result,    \* client -> what its last request returned
  line,      \* connection -> how much of the request line is in the socket
  open,      \* connection -> whether the client still has it open
  response,  \* connection -> the response line in the socket
  backlog,   \* connections not yet accepted
  serving,   \* the connection in handle_client
  stage,     \* where handle_client is; "down" while no daemon runs
  handled,   \* the requests Daemon::handle was given, in order
  exits

vars == <<tries, calling, result, line, open, response, backlog, serving, stage,
          handled, exits>>

Conns == Clients \X (1..MaxTries)
Mine(c) == <<c, tries[c]>>
NoConn == <<>>

\* read_line returns at the newline, at the limit, or when the client is gone; what it
\* has read by then parses without the newline too, but not cut off.
Ended(k) == line[k] \in {"whole", "long"} \/ ~open[k]
Parses(k) == line[k] \in {"text", "whole"}

Init ==
  /\ tries = [c \in Clients |-> 0]
  /\ calling = [c \in Clients |-> FALSE]
  /\ result = [c \in Clients |-> "none"]
  /\ line = [k \in Conns |-> "none"]
  /\ open = [k \in Conns |-> FALSE]
  /\ response = [k \in Conns |-> "none"]
  /\ backlog = <<>>
  /\ serving = NoConn
  /\ stage = "accept"
  /\ handled = <<>>
  /\ exits = 0

-----------------------------------------------------------------------------
(* request                                                                 *)

\* Nobody listens while the daemon is down.
Connect(c) ==
  /\ ~calling[c]
  /\ tries[c] < MaxTries
  /\ tries' = [tries EXCEPT ![c] = @ + 1]
  /\ IF stage = "down"
       THEN /\ result' = [result EXCEPT ![c] = "error"]
            /\ UNCHANGED <<calling, open, backlog>>
       ELSE /\ calling' = [calling EXCEPT ![c] = TRUE]
            /\ result' = [result EXCEPT ![c] = "none"]
            /\ open' = [open EXCEPT ![<<c, tries[c] + 1>>] = TRUE]
            /\ backlog' = Append(backlog, <<c, tries[c] + 1>>)
  /\ UNCHANGED <<line, response, serving, stage, handled, exits>>

\* The JSON text, in pieces, and then the newline: a client may stall or die before any
\* of them.  A "long" line has more than MAX_REQUEST_BYTES before its newline.
Write(c) ==
  /\ calling[c] /\ open[Mine(c)]
  /\ line[Mine(c)] \in {"none", "part", "text"}
  /\ response[Mine(c)] = "none"
  /\ \E text \in IF line[Mine(c)] = "text" THEN {"whole"}
               ELSE {"part", "text", "whole", "long"} :
       /\ text # line[Mine(c)]
       /\ line' = [line EXCEPT ![Mine(c)] = text]
  /\ UNCHANGED <<tries, calling, result, open, response, backlog, serving, stage,
                 handled, exits>>

Return(c, what) ==
  /\ calling' = [calling EXCEPT ![c] = FALSE]
  /\ result' = [result EXCEPT ![c] = what]
  /\ open' = [open EXCEPT ![Mine(c)] = FALSE]

Receive(c) ==
  /\ calling[c]
  /\ response[Mine(c)] # "none"
  /\ Return(c, response[Mine(c)])
  /\ UNCHANGED <<tries, line, response, backlog, serving, stage, handled, exits>>

\* Its timeout, or the end of its process.
GiveUp(c) ==
  /\ calling[c]
  /\ Return(c, "error")
  /\ UNCHANGED <<tries, line, response, backlog, serving, stage, handled, exits>>

-----------------------------------------------------------------------------
(* serve and handle_client                                                 *)

Accept_Newest ==
  /\ stage = "accept"
  /\ backlog # <<>>
  /\ serving' = backlog[Len(backlog)]
  /\ backlog' = SubSeq(backlog, 1, Len(backlog) - 1)
  /\ stage' = "read"
  /\ UNCHANGED <<tries, calling, result, line, open, response, handled, exits>>

Accept ==
  /\ stage = "accept"
  /\ backlog # <<>>
  /\ serving' = Head(backlog)
  /\ backlog' = Tail(backlog)
  /\ stage' = "read"
  /\ UNCHANGED <<tries, calling, result, line, open, response, handled, exits>>

ReadLine_NoTimeout ==
  /\ stage = "read"
  /\ Ended(serving)
  /\ stage' = "dispatch"
  /\ UNCHANGED <<tries, calling, result, line, open, response, backlog, serving,
                 handled, exits>>

\* A client that stalls before its line has ended is dropped.
ReadLine ==
  /\ stage = "read"
  /\ \/ /\ Ended(serving)
        /\ stage' = "dispatch"
        /\ UNCHANGED <<response, serving>>
     \/ /\ ~Ended(serving)
        /\ stage' = "accept"
        /\ response' = [response EXCEPT ![serving] = "error"]
        /\ serving' = NoConn
  /\ UNCHANGED <<tries, calling, result, line, open, backlog, handled, exits>>

\* A line that does not parse never reaches Daemon::handle.
Dispatch ==
  /\ stage = "dispatch"
  /\ handled' = IF Parses(serving) THEN Append(handled, serving) ELSE handled
  /\ stage' = "reply"
  /\ UNCHANGED <<tries, calling, result, line, open, response, backlog, serving, exits>>

Reply_StillServing ==
  /\ stage = "reply"
  /\ response' =
       [response EXCEPT ![serving] = IF Parses(serving) THEN "ok" ELSE "error"]
  /\ stage' = "accept"
  /\ UNCHANGED <<tries, calling, result, line, open, backlog, serving, handled, exits>>

Reply_ToNewest ==
  /\ stage = "reply"
  /\ response' = [response EXCEPT ![Mine(serving[1])] =
                    IF Parses(serving) THEN "ok" ELSE "error"]
  /\ serving' = NoConn
  /\ stage' = "accept"
  /\ UNCHANGED <<tries, calling, result, line, open, backlog, handled, exits>>

\* The response of a request that parsed, or "bad request"; nobody may be reading.
Reply ==
  /\ stage = "reply"
  /\ response' =
       [response EXCEPT ![serving] = IF Parses(serving) THEN "ok" ELSE "error"]
  /\ serving' = NoConn
  /\ stage' = "accept"
  /\ UNCHANGED <<tries, calling, result, line, open, backlog, handled, exits>>

\* A signal: every connection is closed, and what was in the sockets is gone.
Exit ==
  /\ stage # "down"
  /\ exits < MaxExits
  /\ exits' = exits + 1
  /\ stage' = "down"
  /\ serving' = NoConn
  /\ backlog' = <<>>
  /\ response' = [k \in Conns |-> IF open[k] /\ response[k] = "none" THEN "error"
                                  ELSE response[k]]
  /\ UNCHANGED <<tries, calling, result, line, open, handled>>

\* systemd starts the daemon again, which binds a new socket.
Bind ==
  /\ stage = "down"
  /\ stage' = "accept"
  /\ UNCHANGED <<tries, calling, result, line, open, response, backlog, serving,
                 handled, exits>>

Client == \E c \in Clients : Connect(c) \/ Write(c) \/ Receive(c) \/ GiveUp(c)
HandleClient == Accept \/ ReadLine \/ Dispatch \/ Reply
Next == Client \/ HandleClient \/ Exit \/ Bind

Spec == Init /\ [][Next]_vars

\* The accept loop keeps running: every read is bounded by IO_TIMEOUT, and every
\* handler ends.
FairSpec == Spec /\ WF_vars(HandleClient)

-----------------------------------------------------------------------------
Queued(k) == \E i \in 1..Len(backlog) : backlog[i] = k
Handled(k) == \E i \in 1..Len(handled) : handled[i] = k

TypeOK ==
  /\ tries \in [Clients -> 0..MaxTries]
  /\ calling \in [Clients -> BOOLEAN]
  /\ result \in [Clients -> {"none", "ok", "error"}]
  /\ line \in [Conns -> {"none", "part", "text", "whole", "long"}]
  /\ open \in [Conns -> BOOLEAN]
  /\ response \in [Conns -> {"none", "ok", "error"}]
  /\ backlog \in Seq(Conns) /\ handled \in Seq(Conns)
  /\ serving \in Conns \cup {NoConn}
  /\ stage \in {"accept", "read", "dispatch", "reply", "down"}
  /\ stage \in {"read", "dispatch", "reply"} <=> serving # NoConn
  /\ exits \in 0..MaxExits

\* A client is told that its request was done only when that very request was: it
\* never gets the response to an earlier one it gave up on.
OkMeansHandled == \A c \in Clients : result[c] = "ok" => Handled(Mine(c))

\* A request is done once at most, and a client's requests are done in the order it
\* made them: one given up on may still be done, but never after its retry.
HandledInOrder ==
  \A i, j \in 1..Len(handled) :
    i < j /\ handled[i][1] = handled[j][1] => handled[i][2] < handled[j][2]

\* "A client that connects and then stalls would otherwise wedge every other client":
\* a request wholly written is done, or the daemon goes down, whatever others do.
NobodyIsWedged ==
  \A k \in Conns :
    (line[k] = "whole" /\ (Queued(k) \/ serving = k)) ~> (Handled(k) \/ stage = "down")
=============================================================================
