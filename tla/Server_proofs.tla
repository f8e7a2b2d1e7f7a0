---------------------------- MODULE Server_proofs ----------------------------
(***************************************************************************)
(* The control socket, for any number of clients and tries: an answer      *)
(* belongs to its request, and a client's requests are done in the order   *)
(* it made them, each once at most.                                        *)
(***************************************************************************)
EXTENDS Server, TLAPS

\* Connections are numbered as they are made: none exists that is not made yet.
Made(k) == k[2] <= tries[k[1]]

Numbered ==
  /\ serving # NoConn => Made(serving)
  /\ \A i \in 1..Len(backlog) : Made(backlog[i])
  /\ \A i \in 1..Len(handled) : Made(handled[i])
  /\ \A c \in Clients : calling[c] => tries[c] > 0

\* A line that went to dispatch changes no more; and "ok" is only ever said of a request
\* that was handled.
Answers ==
  /\ stage \in {"dispatch", "reply"} => Ended(serving)
  /\ stage = "reply" /\ Parses(serving) => Handled(serving)
  /\ \A k \in Conns : response[k] = "ok" => Handled(k)

\* k was made before l, if one client made both.
Before(k, l) == k[1] = l[1] => k[2] < l[2]

\* Requests handled, the one being served, and those waiting stand in this order.
Order ==
  /\ \A i, j \in 1..Len(handled) : i < j => Before(handled[i], handled[j])
  /\ \A i, j \in 1..Len(backlog) : i < j => Before(backlog[i], backlog[j])
  /\ \A i \in 1..Len(handled), j \in 1..Len(backlog) : Before(handled[i], backlog[j])
  /\ serving # NoConn => \A j \in 1..Len(backlog) : Before(serving, backlog[j])
  /\ stage \in {"read", "dispatch"} => \A i \in 1..Len(handled) : Before(handled[i], serving)

IInv == TypeOK /\ Numbered /\ Answers /\ OkMeansHandled /\ Order

-----------------------------------------------------------------------------
LEMMA ConnParts ==
  ASSUME NEW k \in Conns
  PROVE  /\ k = <<k[1], k[2]>> /\ k[1] \in Clients /\ k[2] \in 1..MaxTries
         /\ k # NoConn
  BY DEF Conns, NoConn

LEMMA MineIsConn ==
  ASSUME TypeOK, Numbered, NEW c \in Clients, calling[c]
  PROVE  Mine(c) \in Conns
  BY ServerAssumption DEF TypeOK, Numbered, Mine, Conns

LEMMA Appended ==
  ASSUME NEW s \in Seq(Conns), NEW k \in Conns
  PROVE  /\ Append(s, k) \in Seq(Conns)
         /\ Len(s) \in Nat /\ Len(Append(s, k)) = Len(s) + 1
         /\ \A i \in 1..Len(s) : Append(s, k)[i] = s[i]
         /\ Append(s, k)[Len(s) + 1] = k
  OBVIOUS

LEMMA Taken ==
  ASSUME NEW s \in Seq(Conns), s # <<>>
  PROVE  /\ Head(s) \in Conns /\ Tail(s) \in Seq(Conns)
         /\ Head(s) = s[1] /\ 1 \in 1..Len(s)
         /\ Len(Tail(s)) = Len(s) - 1
         /\ \A i \in 1..Len(Tail(s)) : Tail(s)[i] = s[i + 1] /\ i + 1 \in 1..Len(s)
  OBVIOUS

LEMMA InitHolds == Init => IInv
  BY ServerAssumption DEF Init, IInv, TypeOK, Numbered, Answers, Ended, Parses, OkMeansHandled, Order,
     Conns, NoConn

-----------------------------------------------------------------------------
(* The clients                                                             *)

LEMMA ConnectStep ==
  ASSUME IInv, NEW c \in Clients, Connect(c)
  PROVE  IInv'
  <1> USE ServerAssumption
  <1>1. tries[c] \in 0..MaxTries /\ tries[c] < MaxTries
    BY DEF IInv, TypeOK, Connect
  <1>2. PICK new \in Conns : new = <<c, tries[c] + 1>> /\ new[1] = c /\ new[2] = tries[c] + 1
    <2>1. <<c, tries[c] + 1>> \in Conns
      BY <1>1 DEF Conns
    <2>2. <<c, tries[c] + 1>>[1] = c /\ <<c, tries[c] + 1>>[2] = tries[c] + 1
      OBVIOUS
    <2> QED
      BY <2>1, <2>2
  <1>3. tries' = [tries EXCEPT ![c] = tries[c] + 1]
    BY DEF Connect
  <1>4. /\ tries' \in [Clients -> 0..MaxTries]
        /\ \A d \in Clients : tries'[d] = IF d = c THEN tries[c] + 1 ELSE tries[d]
    BY <1>1, <1>3 DEF IInv, TypeOK
  <1>5. \/ /\ backlog' = backlog /\ stage = "down"
           /\ calling' = calling /\ open' = open
           /\ result' = [result EXCEPT ![c] = "error"]
        \/ /\ backlog' = Append(backlog, new)
           /\ calling' = [calling EXCEPT ![c] = TRUE]
           /\ open' = [open EXCEPT ![new] = TRUE]
           /\ result' = [result EXCEPT ![c] = "none"]
    BY <1>2 DEF Connect
  <1>6. TypeOK'
    <2>1. backlog \in Seq(Conns) /\ Append(backlog, new) \in Seq(Conns)
      BY Appended DEF IInv, TypeOK
    <2>2. /\ calling' \in [Clients -> BOOLEAN] /\ open' \in [Conns -> BOOLEAN]
          /\ result' \in [Clients -> {"none", "ok", "error"}]
      BY <1>2, <1>5 DEF IInv, TypeOK
    <2> QED
      BY <1>4, <1>5, <2>1, <2>2 DEF IInv, TypeOK, Connect
  <1>7. ASSUME NEW k \in Conns, Made(k)
        PROVE  k[2] <= tries'[k[1]] /\ k # new /\ Before(k, new)
    <2>1. k[1] \in Clients /\ k[2] \in 1..MaxTries
      BY ConnParts
    <2>2. tries[k[1]] \in 0..MaxTries
      BY <2>1 DEF IInv, TypeOK
    <2>3. k[2] <= tries'[k[1]]
      BY <1>1, <1>4, <1>7, <2>1, <2>2 DEF Made
    <2>4. Before(k, new)
      BY <1>1, <1>2, <1>7, <2>1 DEF Made, Before
    <2>5. k # new
      BY <1>1, <1>2, <1>7, <2>1 DEF Made
    <2> QED
      BY <2>3, <2>4, <2>5
  <1>8. new[2] <= tries'[new[1]]
    BY <1>1, <1>2, <1>4
  <1>9. /\ \A i \in 1..Len(handled) : handled[i] \in Conns /\ Made(handled[i])
        /\ \A i \in 1..Len(backlog) : backlog[i] \in Conns /\ Made(backlog[i])
        /\ serving # NoConn => serving \in Conns /\ Made(serving)
    BY DEF IInv, TypeOK, Numbered
  <1>10. handled' = handled /\ serving' = serving /\ stage' = stage
    BY DEF Connect
  <1>11. backlog' = backlog
         \/ /\ \A j \in 1..Len(backlog) : backlog'[j] = backlog[j]
            /\ backlog'[Len(backlog) + 1] = new
            /\ Len(backlog') = Len(backlog) + 1
    <2>1. /\ \A j \in 1..Len(backlog) : Append(backlog, new)[j] = backlog[j]
          /\ Append(backlog, new)[Len(backlog) + 1] = new
          /\ Len(Append(backlog, new)) = Len(backlog) + 1
      BY Appended DEF IInv, TypeOK
    <2>2. backlog' = backlog \/ backlog' = Append(backlog, new)
      BY <1>5
    <2> QED
      BY <2>1, <2>2
  <1>12. Len(backlog) \in Nat
    BY DEF IInv, TypeOK
  <1>13. \A j \in 1..Len(backlog') :
           (j \in 1..Len(backlog) /\ backlog'[j] = backlog[j])
           \/ (j = Len(backlog) + 1 /\ backlog'[j] = new)
    BY <1>11, <1>12
  <1>14. Numbered'
    <2>1. \A i \in 1..Len(handled) : handled[i][2] <= tries'[handled[i][1]]
      BY <1>7, <1>9
    <2>2. serving # NoConn => serving[2] <= tries'[serving[1]]
      BY <1>7, <1>9
    <2>3. \A i \in 1..Len(backlog) : backlog[i][2] <= tries'[backlog[i][1]]
      BY <1>7, <1>9
    <2>4. ASSUME NEW d \in Clients, calling'[d]
          PROVE  tries'[d] > 0
      <3>1. CASE d = c
        BY <1>1, <1>4, <3>1
      <3>2. CASE d # c
        <4>1. calling[d]
          BY <1>5, <2>4, <3>2 DEF IInv, TypeOK
        <4> QED
          BY <1>4, <3>2, <4>1 DEF IInv, Numbered
      <3> QED
        BY <3>1, <3>2
    <2>5. \A j \in 1..Len(backlog') : backlog'[j][2] <= tries'[backlog'[j][1]]
      BY <1>8, <1>13, <2>3
    <2> QED
      BY <1>10, <2>1, <2>2, <2>4, <2>5 DEF Numbered, Made
  <1>15. Answers'
    <2>1. stage \in {"dispatch", "reply"} => serving \in Conns /\ serving # new
      BY <1>7, <1>9 DEF IInv, TypeOK
    <2>2. \A k \in Conns : k # new => open'[k] = open[k]
      BY <1>2, <1>5 DEF IInv, TypeOK
    <2>3. line' = line /\ response' = response
      BY DEF Connect
    <2> QED
      BY <1>10, <2>1, <2>2, <2>3 DEF IInv, Answers, Ended, Parses, Handled
  <1>16. OkMeansHandled'
    <2>1. ASSUME NEW d \in Clients, result'[d] = "ok"
          PROVE  Mine(d)' = Mine(d) /\ result[d] = "ok"
      BY <1>4, <1>5, <2>1 DEF IInv, TypeOK, Mine
    <2> QED
      BY <1>10, <2>1 DEF IInv, OkMeansHandled, Handled, Mine
  <1>17. Order'
    <2>1. \A i \in 1..Len(handled) : Before(handled[i], new)
      BY <1>7, <1>9
    <2>2. \A i \in 1..Len(backlog) : Before(backlog[i], new)
      BY <1>7, <1>9
    <2>3. serving # NoConn => Before(serving, new)
      BY <1>7, <1>9
    <2>4. \A i, j \in 1..Len(backlog') : i < j => Before(backlog'[i], backlog'[j])
      <3> SUFFICES ASSUME NEW i \in 1..Len(backlog'), NEW j \in 1..Len(backlog'), i < j
                   PROVE  Before(backlog'[i], backlog'[j])
        OBVIOUS
      <3>1. i \in 1..Len(backlog) /\ backlog'[i] = backlog[i]
        BY <1>11, <1>12, <1>13
      <3> QED
        BY <1>13, <2>2, <3>1 DEF IInv, Order
    <2>5. \A i \in 1..Len(handled), j \in 1..Len(backlog') : Before(handled[i], backlog'[j])
      BY <1>13, <2>1 DEF IInv, Order
    <2>6. serving # NoConn => \A j \in 1..Len(backlog') : Before(serving, backlog'[j])
      BY <1>13, <2>3 DEF IInv, Order
    <2> QED
      BY <1>10, <2>4, <2>5, <2>6 DEF IInv, Order, Before
  <1> QED
    BY <1>6, <1>14, <1>15, <1>16, <1>17 DEF IInv

LEMMA WriteStep ==
  ASSUME IInv, NEW c \in Clients, Write(c)
  PROVE  IInv'
  <1>1. Mine(c) \in Conns
    BY MineIsConn DEF IInv, Write
  <1>2. TypeOK'
    BY <1>1 DEF IInv, TypeOK, Write
  <1>3. Numbered' /\ Order' /\ OkMeansHandled'
    BY DEF IInv, Numbered, Order, OkMeansHandled, Write, Made, Before, Handled, Mine
  <1>4. Answers'
    <2>1. \A k \in Conns : k # Mine(c) => line'[k] = line[k]
      BY <1>1 DEF IInv, TypeOK, Write
    <2>2. stage \in {"dispatch", "reply"} => serving \in Conns
      BY DEF IInv, TypeOK
    <2>3. stage \in {"dispatch", "reply"} => serving # Mine(c)
      BY <2>2 DEF IInv, Answers, Ended, Parses, Write
    <2> QED
      BY <2>1, <2>2, <2>3 DEF IInv, Answers, Ended, Parses, Write, Handled
  <1> QED
    BY <1>2, <1>3, <1>4 DEF IInv

\* What Receive and GiveUp have in common: the client leaves with an error, or with the
\* response to its own connection.
LEMMA ReturnStep ==
  ASSUME IInv, NEW c \in Clients, calling[c], NEW what \in {"ok", "error"},
         Return(c, what), what = "ok" => response[Mine(c)] = "ok",
         UNCHANGED <<tries, line, response, backlog, serving, stage, handled, exits>>
  PROVE  IInv'
  <1>1. Mine(c) \in Conns
    BY MineIsConn DEF IInv
  <1>2. TypeOK'
    BY <1>1 DEF IInv, TypeOK, Return
  <1>3. Numbered' /\ Order'
    BY DEF IInv, TypeOK, Numbered, Order, Return, Made, Before
  <1>4. Answers'
    BY <1>1 DEF IInv, TypeOK, Answers, Ended, Parses, Return, Handled
  <1>5. OkMeansHandled'
    BY <1>1 DEF IInv, TypeOK, Answers, Ended, Parses, OkMeansHandled, Return, Handled, Mine
  <1> QED
    BY <1>2, <1>3, <1>4, <1>5 DEF IInv

LEMMA ClientStep == IInv /\ Client => IInv'
  <1> SUFFICES ASSUME IInv, NEW c \in Clients,
                      Connect(c) \/ Write(c) \/ Receive(c) \/ GiveUp(c)
               PROVE  IInv'
    BY DEF Client
  <1>1. CASE Connect(c)
    BY <1>1, ConnectStep
  <1>2. CASE Write(c)
    BY <1>2, WriteStep
  <1>3. CASE Receive(c)
    <2>1. response[Mine(c)] \in {"ok", "error"}
      BY <1>3, MineIsConn DEF IInv, TypeOK, Receive
    <2> QED
      BY <1>3, <2>1, ReturnStep DEF Receive
  <1>4. CASE GiveUp(c)
    BY <1>4, ReturnStep DEF GiveUp
  <1> QED
    BY <1>1, <1>2, <1>3, <1>4

-----------------------------------------------------------------------------
(* The daemon                                                              *)

LEMMA AcceptStep == IInv /\ Accept => IInv'
  <1> SUFFICES ASSUME IInv, Accept
               PROVE  IInv'
    OBVIOUS
  <1>1. /\ Head(backlog) \in Conns /\ Tail(backlog) \in Seq(Conns)
        /\ Head(backlog) = backlog[1] /\ 1 \in 1..Len(backlog)
        /\ Len(Tail(backlog)) = Len(backlog) - 1 /\ Len(backlog) \in Nat
        /\ \A i \in 1..Len(Tail(backlog)) :
             Tail(backlog)[i] = backlog[i + 1] /\ i + 1 \in 1..Len(backlog)
    BY Taken DEF IInv, TypeOK, Accept
  <1>2. serving' = backlog[1] /\ backlog' = Tail(backlog) /\ serving' # NoConn
    BY <1>1, ConnParts DEF Accept
  <1>3. \A i \in 1..Len(backlog') : backlog'[i] = backlog[i + 1] /\ i + 1 \in 1..Len(backlog)
    BY <1>1, <1>2
  <1>4. TypeOK'
    BY <1>1, <1>2 DEF IInv, TypeOK, Accept
  <1>5. Numbered'
    BY <1>1, <1>2, <1>3 DEF IInv, Numbered, Accept, Made
  <1>6. Answers' /\ OkMeansHandled'
    BY DEF IInv, Answers, Ended, Parses, OkMeansHandled, Accept, Handled, Mine
  <1>7. Order'
    <2>1. \A i, j \in 1..Len(backlog') : i < j => Before(backlog'[i], backlog'[j])
      <3> SUFFICES ASSUME NEW i \in 1..Len(backlog'), NEW j \in 1..Len(backlog'), i < j
                   PROVE  Before(backlog'[i], backlog'[j])
        OBVIOUS
      <3>1. i + 1 < j + 1
        BY <1>1, <1>2
      <3> QED
        BY <1>3, <3>1 DEF IInv, Order
    <2>2. \A j \in 1..Len(backlog') : Before(serving', backlog'[j])
      <3> SUFFICES ASSUME NEW j \in 1..Len(backlog')
                   PROVE  Before(serving', backlog'[j])
        OBVIOUS
      <3>1. 1 < j + 1
        BY <1>1, <1>2
      <3> QED
        BY <1>1, <1>2, <1>3, <3>1 DEF IInv, Order
    <2>3. handled' = handled
      BY DEF Accept
    <2>4. \A i \in 1..Len(handled), j \in 1..Len(backlog') : Before(handled[i], backlog'[j])
      BY <1>3 DEF IInv, Order
    <2>5. \A i \in 1..Len(handled) : Before(handled[i], serving')
      BY <1>1, <1>2 DEF IInv, Order
    <2> QED
      BY <2>1, <2>2, <2>3, <2>4, <2>5 DEF IInv, Order, Before
  <1> QED
    BY <1>4, <1>5, <1>6, <1>7 DEF IInv

LEMMA ReadLineStep == IInv /\ ReadLine => IInv'
  <1> SUFFICES ASSUME IInv, ReadLine
               PROVE  IInv'
    OBVIOUS
  <1>1. serving \in Conns /\ serving # NoConn
    BY DEF IInv, TypeOK, ReadLine
  <1>2. TypeOK'
    BY <1>1 DEF IInv, TypeOK, ReadLine
  <1>3. Numbered' /\ OkMeansHandled'
    BY DEF IInv, Numbered, OkMeansHandled, ReadLine, Made, Handled, Mine
  <1>4. Answers'
    <2>1. UNCHANGED <<line, open, handled>> /\ stage' # "reply"
      BY DEF ReadLine
    <2>2. stage' \in {"dispatch", "reply"} => Ended(serving') /\ serving' = serving
      BY DEF ReadLine
    <2>3. \A k \in Conns : response'[k] = "ok" => response[k] = "ok"
      BY <1>1 DEF IInv, TypeOK, ReadLine
    <2> QED
      BY <2>1, <2>2, <2>3 DEF IInv, Answers, Ended, Handled
  <1>5. Order'
    <2>1. handled' = handled /\ backlog' = backlog
      BY DEF ReadLine
    <2>2. serving' # NoConn => serving' = serving /\ stage = "read"
      BY <1>1 DEF ReadLine
    <2>3. stage' \in {"read", "dispatch"} => serving' = serving
      BY DEF ReadLine
    <2> QED
      BY <1>1, <2>1, <2>2, <2>3 DEF IInv, Order, Before, ReadLine
  <1> QED
    BY <1>2, <1>3, <1>4, <1>5 DEF IInv

\* The request is handled after every one its client made before it, and before every one
\* that its client has waiting.
LEMMA DispatchStep == IInv /\ Dispatch => IInv'
  <1> SUFFICES ASSUME IInv, Dispatch
               PROVE  IInv'
    OBVIOUS
  <1>1. serving \in Conns /\ serving # NoConn
    BY DEF IInv, TypeOK, Dispatch
  <1>2. /\ Append(handled, serving) \in Seq(Conns)
        /\ Len(handled) \in Nat /\ Len(Append(handled, serving)) = Len(handled) + 1
        /\ \A i \in 1..Len(handled) : Append(handled, serving)[i] = handled[i]
        /\ Append(handled, serving)[Len(handled) + 1] = serving
    BY <1>1, Appended DEF IInv, TypeOK
  <1>3. /\ handled' = IF Parses(serving) THEN Append(handled, serving) ELSE handled
        /\ stage = "dispatch" /\ stage' = "reply"
        /\ UNCHANGED <<tries, calling, result, line, open, response, backlog, serving, exits>>
    BY DEF Dispatch
  <1>4. /\ Len(handled') \in Nat /\ Len(handled) <= Len(handled')
        /\ \A i \in 1..Len(handled) : handled'[i] = handled[i]
        /\ \A i \in 1..Len(handled') : i \in 1..Len(handled)
                                         \/ (i = Len(handled) + 1 /\ handled'[i] = serving)
        /\ Parses(serving) => Handled(serving)'
    <2>1. CASE Parses(serving)
      <3>1. handled' = Append(handled, serving)
        BY <1>3, <2>1
      <3>2. Len(handled') = Len(handled) + 1 /\ Len(handled) + 1 \in 1..Len(handled')
        BY <1>2, <3>1
      <3>3. Handled(serving)'
        BY <1>2, <1>3, <3>1, <3>2 DEF Handled
      <3> QED
        BY <1>2, <3>1, <3>2, <3>3
    <2>2. CASE ~Parses(serving)
      BY <1>2, <1>3, <2>2
    <2> QED
      BY <2>1, <2>2
  <1>5. \A k : Handled(k) => Handled(k)'
    BY <1>2, <1>4 DEF Handled
  <1>6. TypeOK'
    BY <1>1, <1>2, <1>3 DEF IInv, TypeOK
  <1>7. Numbered'
    BY <1>1, <1>3, <1>4 DEF IInv, Numbered, Made
  <1>8. Answers'
    BY <1>3, <1>4, <1>5 DEF IInv, Answers, Ended, Parses, Handled
  <1>9. OkMeansHandled'
    BY <1>3, <1>5 DEF IInv, OkMeansHandled, Mine, Handled
  <1>10. Order'
    <2>1. \A i, j \in 1..Len(handled') : i < j => Before(handled'[i], handled'[j])
      <3> SUFFICES ASSUME NEW i \in 1..Len(handled'), NEW j \in 1..Len(handled'), i < j
                   PROVE  Before(handled'[i], handled'[j])
        OBVIOUS
      <3>1. i \in 1..Len(handled)
        BY <1>2, <1>4
      <3> QED
        BY <1>3, <1>4, <3>1 DEF IInv, Order
    <2>2. \A i \in 1..Len(handled'), j \in 1..Len(backlog) : Before(handled'[i], backlog[j])
      BY <1>1, <1>4 DEF IInv, Order
    <2> QED
      BY <1>3, <2>1, <2>2 DEF IInv, Order, Before
  <1> QED
    BY <1>6, <1>7, <1>8, <1>9, <1>10 DEF IInv

LEMMA ReplyStep == IInv /\ Reply => IInv'
  <1> SUFFICES ASSUME IInv, Reply
               PROVE  IInv'
    OBVIOUS
  <1>1. serving \in Conns /\ serving # NoConn
    BY DEF IInv, TypeOK, Reply
  <1>2. TypeOK'
    BY <1>1 DEF IInv, TypeOK, Reply
  <1>3. Numbered' /\ Order' /\ OkMeansHandled'
    BY DEF IInv, Numbered, Order, OkMeansHandled, Reply, Made, Before, Handled, Mine
  <1>4. Answers'
    BY <1>1 DEF IInv, TypeOK, Answers, Ended, Parses, Reply, Handled
  <1> QED
    BY <1>2, <1>3, <1>4 DEF IInv

LEMMA ExitStep == IInv /\ Exit => IInv'
  <1> SUFFICES ASSUME IInv, Exit
               PROVE  IInv'
    OBVIOUS
  <1>1. TypeOK'
    BY ServerAssumption DEF IInv, TypeOK, Exit
  <1>2. backlog' = <<>> /\ Len(backlog') = 0 /\ serving' = NoConn /\ handled' = handled
    BY DEF Exit
  <1>3. Numbered' /\ Order'
    BY <1>2 DEF IInv, Numbered, Order, Exit, Made, Before
  <1>4. \A k \in Conns : response'[k] = "ok" => response[k] = "ok"
    BY DEF Exit
  <1>5. Answers' /\ OkMeansHandled'
    BY <1>4 DEF IInv, Answers, Ended, Parses, OkMeansHandled, Exit, Handled, Mine
  <1> QED
    BY <1>1, <1>3, <1>5 DEF IInv

LEMMA BindStep == IInv /\ Bind => IInv'
  <1> SUFFICES ASSUME IInv, Bind
               PROVE  IInv'
    OBVIOUS
  <1>1. TypeOK'
    BY DEF IInv, TypeOK, Bind
  <1>2. Numbered' /\ Order' /\ Answers' /\ OkMeansHandled'
    BY DEF IInv, Numbered, Order, Answers, Ended, Parses, OkMeansHandled, Bind, Made, Before, Handled, Mine
  <1> QED
    BY <1>1, <1>2 DEF IInv

-----------------------------------------------------------------------------
LEMMA Inductive == IInv /\ [Next]_vars => IInv'
  <1> SUFFICES ASSUME IInv, [Next]_vars
               PROVE  IInv'
    OBVIOUS
  <1>1. CASE Client
    BY <1>1, ClientStep
  <1>2. CASE HandleClient
    BY <1>2, AcceptStep, ReadLineStep, DispatchStep, ReplyStep DEF HandleClient
  <1>3. CASE Exit
    BY <1>3, ExitStep
  <1>4. CASE Bind
    BY <1>4, BindStep
  <1>5. CASE UNCHANGED vars
    <2>1. /\ UNCHANGED <<tries, calling, result, line, open, response>>
          /\ UNCHANGED <<backlog, serving, stage, handled, exits>>
      BY <1>5 DEF vars
    <2>2. TypeOK'
      BY <2>1 DEF IInv, TypeOK
    <2>3. Numbered' /\ Answers' /\ OkMeansHandled' /\ Order'
      BY <2>1 DEF IInv, Numbered, Answers, Ended, Parses, OkMeansHandled, Order, Made, Before, Handled, Mine
    <2> QED
      BY <2>2, <2>3 DEF IInv
  <1> QED
    BY <1>1, <1>2, <1>3, <1>4, <1>5 DEF Next

LEMMA Invariance == Spec => []IInv
  BY InitHolds, Inductive, PTL DEF Spec

\* Every variable keeps its type, and handle_client has a connection exactly while it
\* reads, dispatches or replies.
THEOREM TypeCorrect == Spec => []TypeOK
  <1>1. IInv => TypeOK
    BY DEF IInv
  <1> QED
    BY <1>1, Invariance, PTL

\* A client that gave up and tried again is never given the response to the request it
\* gave up on: "ok" is the answer to this request, and it was handled.
THEOREM AnswersItsOwnRequest == Spec => []OkMeansHandled
  <1>1. IInv => OkMeansHandled
    BY DEF IInv
  <1> QED
    BY <1>1, Invariance, PTL

\* Given up on or not, a client's requests are handled in the order it made them, and
\* none twice, whatever the clients and the restarts of the daemon.
THEOREM RequestsInOrder == Spec => []HandledInOrder
  <1>1. IInv => HandledInOrder
    BY DEF IInv, Order, Before, HandledInOrder
  <1> QED
    BY <1>1, Invariance, PTL
=============================================================================
