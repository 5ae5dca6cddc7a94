------------------------- MODULE SessionClientsProofs -------------------------
(***************************************************************************)
(* An engine without sessions, to clients that pass each context on and    *)
(* wait for each answer, is an engine that keeps a session for each: for   *)
(* any clients of the four kinds beside each other, any calls, and         *)
(* requests and answers that arrive in any order.                          *)
(***************************************************************************)
EXTENDS SessionClients, SessionStoreProofs

Settled == {"allow", "log_only", "require_approval", "block"}

Entries == [call : Calls, decision : Settled \cup {"pending"}, executed : BOOLEAN]

IsPending(logs, client, n) ==
  /\ client \in Clients
  /\ n \in DOMAIN logs[client]
  /\ logs[client][n].decision = "pending"

(* Every client is of its kind and has a log.                              *)
LogsOK ==
  /\ kind \in [Clients -> {"loop", "parallel", "guard", "hook"}]
  /\ log \in [Clients -> Seq(Entries)]
  /\ DOMAIN context = Clients /\ context = [client \in Clients |-> context[client]]
  /\ \A client \in Clients : \A n \in DOMAIN log[client] :
       log[client][n].decision = "pending" => ~log[client][n].executed

(* What is on the way belongs to a pending call, and to one call only.     *)
WayOK ==
  /\ \A r \in requests : IsPending(log, r.client, r.n) /\ r.call = log[r.client][r.n].call
  /\ \A a \in answers : IsPending(log, a.client, a.n) /\ a.decision \in Settled
  /\ \A q, r \in requests : q.client = r.client /\ q.n = r.n => q = r
  /\ \A a, b \in answers : a.client = b.client /\ a.n = b.n => a = b
  /\ \A r \in requests, a \in answers : ~(r.client = a.client /\ r.n = a.n)

(* A looping client waits for its last call only, which carries what it    *)
(* knows.                                                                  *)
LoopOK ==
  \A client \in Clients : kind[client] = "loop" =>
    /\ \A n \in DOMAIN log[client] :
         log[client][n].decision = "pending" => n = Len(log[client])
    /\ \A r \in requests : r.client = client => r.session_context = context[client]

IInv == LogsOK /\ WayOK /\ LoopOK

LEMMA InitIInv == Init => IInv
<1>. SUFFICES ASSUME Init PROVE IInv
  OBVIOUS
<1>1. LogsOK
  BY KindsAssumption DEF Init, LogsOK
<1>2. WayOK
  BY DEF Init, WayOK
<1>3. LoopOK
  BY DEF Init, LoopOK
<1>. QED  BY <1>1, <1>2, <1>3 DEF IInv

(* A client that waits for no call has none that is pending.               *)
LEMMA NothingPending ==
  ASSUME IInv, NEW client \in Clients, MaySend(client), kind[client] = "loop"
  PROVE  \A n \in DOMAIN log[client] : log[client][n].decision # "pending"
<1>1. log[client] \in Seq(Entries)
  BY DEF IInv, LogsOK
<1>2. IsFiniteSet(DOMAIN log[client])
  BY <1>1, FS_Interval
<1>3. IsFiniteSet(Outstanding(client))
  BY <1>2, FS_Subset DEF Outstanding
<1>4. Cardinality(Outstanding(client)) < 1
  BY DEF MaySend
<1>5. Cardinality(Outstanding(client)) = 0
  BY <1>3, <1>4, FS_CardinalityType
<1>6. Outstanding(client) = {}
  BY <1>3, <1>5, FS_EmptySet
<1>. QED  BY <1>6 DEF Outstanding

LEMMA SendStep ==
  ASSUME IInv, NEW client \in Clients, NEW c \in Calls, Send(client, c)
  PROVE  /\ log[client] \in Seq(Entries) /\ log'[client] \in Seq(Entries)
         /\ Len(log'[client]) = Len(log[client]) + 1
         /\ \A n \in 1..Len(log[client]) : log'[client][n] = log[client][n]
         /\ log'[client][Len(log[client]) + 1] =
              [call |-> c, decision |-> "pending", executed |-> FALSE]
         /\ \A other \in Clients \ {client} : log'[other] = log[other]
         /\ log' \in [Clients -> Seq(Entries)]
<1>. DEFINE e == [call |-> c, decision |-> "pending", executed |-> FALSE]
<1>1. log \in [Clients -> Seq(Entries)] /\ e \in Entries
  BY DEF IInv, LogsOK, Entries
<1>. HIDE DEF e
<1>2. log' = [log EXCEPT ![client] = Append(@, e)]
  BY DEF Send, e
<1>3. log'[client] = Append(log[client], e)
  BY <1>1, <1>2
<1>4. /\ Append(log[client], e) \in Seq(Entries)
      /\ Len(Append(log[client], e)) = Len(log[client]) + 1
      /\ \A n \in 1..Len(log[client]) : Append(log[client], e)[n] = log[client][n]
      /\ Append(log[client], e)[Len(log[client]) + 1] = e
  BY <1>1
<1>5. log' \in [Clients -> Seq(Entries)] /\ \A other \in Clients \ {client} : log'[other] = log[other]
  BY <1>1, <1>2, <1>4
<1>. QED  BY <1>1, <1>3, <1>4, <1>5 DEF e

LEMMA SendIInv ==
  ASSUME IInv, NEW client \in Clients, NEW c \in Calls, Send(client, c)
  PROVE  IInv'
<1>. DEFINE e == [call |-> c, decision |-> "pending", executed |-> FALSE]
            k == Len(log[client]) + 1
<1>1. /\ log[client] \in Seq(Entries) /\ log'[client] \in Seq(Entries)
      /\ Len(log'[client]) = k
      /\ \A n \in 1..Len(log[client]) : log'[client][n] = log[client][n]
      /\ log'[client][k] = e
      /\ \A other \in Clients \ {client} : log'[other] = log[other]
      /\ log' \in [Clients -> Seq(Entries)]
  BY SendStep
<1>2. /\ Len(log[client]) \in Nat
      /\ DOMAIN log[client] = 1..Len(log[client]) /\ DOMAIN log'[client] = 1..k
      /\ k \notin DOMAIN log[client] /\ k \in DOMAIN log'[client]
  BY <1>1
<1>3. /\ requests' = requests \cup {RequestOf(client, c)}
      /\ kind' = kind /\ context' = context /\ answers' = answers
      /\ MaySend(client)
  BY DEF Send
<1>4. e.decision = "pending" /\ e.executed = FALSE /\ e.call = c
  OBVIOUS
<1>. HIDE DEF e, k
<1>5. ASSUME NEW cl, NEW n, IsPending(log, cl, n)
      PROVE  IsPending(log', cl, n) /\ log'[cl][n] = log[cl][n]
  <2>1. cl \in Clients /\ n \in DOMAIN log[cl] /\ log[cl][n].decision = "pending"
    BY <1>5 DEF IsPending
  <2>2. n \in DOMAIN log'[cl] /\ log'[cl][n] = log[cl][n]
    <3>1. CASE cl = client
      BY <1>1, <1>2, <2>1, <3>1 DEF k
    <3>2. CASE cl # client
      BY <1>1, <2>1, <3>2
    <3>. QED  BY <3>1, <3>2
  <2>. QED  BY <2>1, <2>2 DEF IsPending
<1>6. LogsOK'
  <2>1. \A cl \in Clients : \A n \in DOMAIN log'[cl] :
          log'[cl][n].decision = "pending" => ~log'[cl][n].executed
    <3>1. ASSUME NEW n \in DOMAIN log'[client], log'[client][n].decision = "pending"
          PROVE  ~log'[client][n].executed
      <4>1. n \in DOMAIN log[client] \/ n = k
        BY <1>2 DEF k
      <4>2. CASE n = k
        BY <4>2, <1>1, <1>4
      <4>3. CASE n \in DOMAIN log[client]
        BY <4>3, <3>1, <1>1, <1>2 DEF IInv, LogsOK
      <4>. QED  BY <4>1, <4>2, <4>3
    <3>2. ASSUME NEW cl \in Clients \ {client}, NEW n \in DOMAIN log'[cl],
                 log'[cl][n].decision = "pending"
          PROVE  ~log'[cl][n].executed
      BY <3>2, <1>1 DEF IInv, LogsOK
    <3>. QED  BY <3>1, <3>2
  <2>. QED  BY <1>1, <1>3, <2>1 DEF IInv, LogsOK
<1>7. WayOK'
  <2>. DEFINE q == RequestOf(client, c)
  <2>1. q.client = client /\ q.n = k /\ q.call = c
    BY DEF RequestOf, k
  <2>. HIDE DEF q
  <2>2. IsPending(log', client, k)
    BY <1>1, <1>2, <1>4 DEF IsPending
  <2>3. ~IsPending(log, client, k)
    BY <1>2 DEF IsPending
  <2>4. \A r \in requests : IsPending(log, r.client, r.n) /\ r.call = log[r.client][r.n].call
    BY DEF IInv, WayOK
  <2>5. \A a \in answers : IsPending(log, a.client, a.n) /\ a.decision \in Settled
    BY DEF IInv, WayOK
  <2>6. \A r \in requests' : IsPending(log', r.client, r.n) /\ r.call = log'[r.client][r.n].call
    <3>1. ASSUME NEW r \in requests
          PROVE  IsPending(log', r.client, r.n) /\ r.call = log'[r.client][r.n].call
      BY <1>5, <2>4
    <3>2. q.call = log'[q.client][q.n].call
      BY <1>1, <1>4, <2>1
    <3>3. IsPending(log', q.client, q.n)
      BY <2>1, <2>2
    <3>4. requests' = requests \cup {q}
      BY <1>3 DEF q
    <3>. QED  BY <3>1, <3>2, <3>3, <3>4
  <2>7. \A a \in answers' : IsPending(log', a.client, a.n) /\ a.decision \in Settled
    BY <1>3, <1>5, <2>5
  <2>8. \A x, y \in requests' : x.client = y.client /\ x.n = y.n => x = y
    BY <1>3, <2>1, <2>3, <2>4 DEF IInv, WayOK, q
  <2>9. \A r \in requests', a \in answers' : ~(r.client = a.client /\ r.n = a.n)
    BY <1>3, <2>1, <2>3, <2>5 DEF IInv, WayOK, q
  <2>. QED  BY <1>3, <2>6, <2>7, <2>8, <2>9 DEF IInv, WayOK
<1>8. LoopOK'
  <2>1. ASSUME NEW cl \in Clients, kind'[cl] = "loop", NEW n \in DOMAIN log'[cl],
               log'[cl][n].decision = "pending"
        PROVE  n = Len(log'[cl])
    <3>1. CASE cl = client
      <4>1. \A m \in DOMAIN log[client] : log[client][m].decision # "pending"
        BY <1>3, <2>1, <3>1, NothingPending
      <4>. QED  BY <1>1, <1>2, <2>1, <3>1, <4>1 DEF k
    <3>2. CASE cl # client
      BY <1>1, <1>3, <2>1, <3>2 DEF IInv, LoopOK
    <3>. QED  BY <3>1, <3>2
  <2>2. ASSUME NEW cl \in Clients, kind'[cl] = "loop", NEW r \in requests', r.client = cl
        PROVE  r.session_context = context'[cl]
    <3>1. CASE r \in requests
      BY <1>3, <2>2, <3>1 DEF IInv, LoopOK
    <3>2. CASE r = RequestOf(client, c)
      BY <1>3, <2>2, <3>2 DEF RequestOf
    <3>. QED  BY <1>3, <3>1, <3>2
  <2>. QED  BY <2>1, <2>2 DEF LoopOK
<1>. QED  BY <1>6, <1>7, <1>8 DEF IInv

(* The engine answers: the pending call stays pending, its answer takes    *)
(* the place of the request.                                               *)
LEMMA ValidateStep ==
  ASSUME IInv, NEW r \in requests, ValidateAction(r)
  PROVE  \E a :
    /\ requests' = requests \ {r} /\ answers' = answers \cup {a}
    /\ a.client = r.client /\ a.n = r.n
    /\ a.decision = Central!Decision(r.session_context, r.call)
    /\ a.context = Central!Updated(r.session_context, r.call)
    /\ a.decision \in Settled
<1>. DEFINE a == [client   |-> r.client, n |-> r.n,
                  decision |-> Central!Decision(r.session_context, r.call),
                  context  |-> Central!Updated(r.session_context, r.call)]
<1>1. requests' = requests \ {r} /\ answers' = answers \cup {a}
  BY DEF ValidateAction, _to_response, Reads
<1>2. r.call \in Calls
  <2>1. log[r.client] \in Seq(Entries) /\ r.n \in DOMAIN log[r.client]
    BY DEF IInv, LogsOK, WayOK, IsPending
  <2>2. log[r.client][r.n] \in Entries /\ r.call = log[r.client][r.n].call
    BY <2>1, ElementOfSeq DEF IInv, WayOK
  <2>. QED  BY <2>2 DEF Entries
<1>3. Central!Decision(r.session_context, r.call) \in Settled
  BY <1>2, CallsAssumption DEF Central!Decision, Settled
<1>4. /\ a.client = r.client /\ a.n = r.n
      /\ a.decision = Central!Decision(r.session_context, r.call)
      /\ a.context = Central!Updated(r.session_context, r.call)
  OBVIOUS
<1>. HIDE DEF a
<1>. WITNESS a
<1>. QED  BY <1>1, <1>3, <1>4

LEMMA ValidateIInv ==
  ASSUME IInv, NEW r \in requests, ValidateAction(r)
  PROVE  IInv'
<1>1. PICK a :
        /\ requests' = requests \ {r} /\ answers' = answers \cup {a}
        /\ a.client = r.client /\ a.n = r.n /\ a.decision \in Settled
  BY ValidateStep
<1>2. kind' = kind /\ context' = context /\ log' = log
  BY DEF ValidateAction
<1>3. LogsOK'
  BY <1>2 DEF IInv, LogsOK
<1>4. WayOK'
  <2>1. IsPending(log, r.client, r.n)
    BY DEF IInv, WayOK
  <2>2. \A q \in requests' : IsPending(log, q.client, q.n) /\ q.call = log[q.client][q.n].call
    BY <1>1 DEF IInv, WayOK
  <2>3. \A b \in answers' : IsPending(log, b.client, b.n) /\ b.decision \in Settled
    BY <1>1, <2>1 DEF IInv, WayOK
  <2>4. \A p, q \in requests' : p.client = q.client /\ p.n = q.n => p = q
    BY <1>1 DEF IInv, WayOK
  <2>5. \A b, d \in answers' : b.client = d.client /\ b.n = d.n => b = d
    BY <1>1 DEF IInv, WayOK
  <2>6. \A q \in requests', b \in answers' : ~(q.client = b.client /\ q.n = b.n)
    BY <1>1 DEF IInv, WayOK
  <2>. QED  BY <1>2, <2>2, <2>3, <2>4, <2>5, <2>6 DEF WayOK
<1>5. LoopOK'
  BY <1>1, <1>2 DEF IInv, LoopOK
<1>. QED  BY <1>3, <1>4, <1>5 DEF IInv

(* An answer arrives: its call alone is settled.                           *)
LEMMA ReceiveStep ==
  ASSUME IInv, NEW a \in answers, Receive(a)
  PROVE  /\ a.client \in Clients /\ a.n \in DOMAIN log[a.client]
         /\ log' \in [Clients -> Seq(Entries)]
         /\ \A cl \in Clients \ {a.client} : log'[cl] = log[cl]
         /\ Len(log'[a.client]) = Len(log[a.client])
         /\ \A n \in DOMAIN log[a.client] \ {a.n} : log'[a.client][n] = log[a.client][n]
         /\ log'[a.client][a.n].call = log[a.client][a.n].call
         /\ log'[a.client][a.n].decision = a.decision
         /\ log'[a.client][a.n].executed <=> Permitted(a.client, a.decision)
<1>. DEFINE cl == a.client
            old == log[cl][a.n]
            new == [old EXCEPT !.decision = a.decision, !.executed = Permitted(cl, a.decision)]
<1>1. /\ cl \in Clients /\ a.n \in DOMAIN log[cl] /\ a.decision \in Settled
      /\ log \in [Clients -> Seq(Entries)]
  BY DEF IInv, LogsOK, WayOK, IsPending
<1>2. old \in Entries
  BY <1>1, ElementOfSeq
<1>3. Permitted(cl, a.decision) \in BOOLEAN
  <2>1. CASE kind[cl] = "hook"
    BY <2>1 DEF Permitted
  <2>2. CASE kind[cl] = "guard"
    BY <2>2 DEF Permitted, assert_allowed
  <2>3. CASE kind[cl] # "hook" /\ kind[cl] # "guard"
    <3>1. Permitted(cl, a.decision) <=> may_execute(a.decision)
      BY <2>3 DEF Permitted
    <3>2. may_execute(a.decision) \in BOOLEAN
      BY DEF may_execute
    <3>. QED  BY <2>3, <3>1, <3>2 DEF Permitted
  <2>. QED  BY <2>1, <2>2, <2>3
<1>4. /\ new \in Entries /\ new.call = old.call /\ new.decision = a.decision
      /\ new.executed = Permitted(cl, a.decision)
  BY <1>1, <1>2, <1>3 DEF Entries
<1>5. log' = [log EXCEPT ![cl] = [@ EXCEPT ![a.n] = new]]
  BY <1>1, <1>2 DEF Receive, Entries
<1>. HIDE DEF new, old, cl
<1>6. log'[cl] = [log[cl] EXCEPT ![a.n] = new]
  BY <1>1, <1>5
<1>7. log'[cl] \in Seq(Entries) /\ Len(log'[cl]) = Len(log[cl])
  BY <1>1, <1>4, <1>6
<1>8. /\ log'[cl][a.n] = new
      /\ \A n \in DOMAIN log[cl] \ {a.n} : log'[cl][n] = log[cl][n]
  BY <1>1, <1>6
<1>9. /\ log' \in [Clients -> Seq(Entries)]
      /\ \A other \in Clients \ {cl} : log'[other] = log[other]
  BY <1>1, <1>5, <1>6, <1>7
<1>. QED  BY <1>1, <1>4, <1>7, <1>8, <1>9 DEF cl, old

LEMMA ReceiveIInv ==
  ASSUME IInv, NEW a \in answers, Receive(a)
  PROVE  IInv'
<1>1. /\ a.client \in Clients /\ a.n \in DOMAIN log[a.client]
      /\ log' \in [Clients -> Seq(Entries)]
      /\ \A cl \in Clients \ {a.client} : log'[cl] = log[cl]
      /\ Len(log'[a.client]) = Len(log[a.client])
      /\ \A n \in DOMAIN log[a.client] \ {a.n} : log'[a.client][n] = log[a.client][n]
      /\ log'[a.client][a.n].decision = a.decision
  BY ReceiveStep
<1>2. DOMAIN log'[a.client] = DOMAIN log[a.client]
  BY <1>1 DEF IInv, LogsOK
<1>3. /\ kind' = kind /\ requests' = requests /\ answers' = answers \ {a}
      /\ context' = [context EXCEPT ![a.client] = TakenOver(a.client, a)]
  BY DEF Receive
<1>4. a.decision # "pending"
  BY DEF IInv, WayOK, Settled
<1>5. ASSUME NEW cl, NEW n, IsPending(log, cl, n), ~(cl = a.client /\ n = a.n)
      PROVE  IsPending(log', cl, n) /\ log'[cl][n] = log[cl][n]
  <2>1. cl \in Clients /\ n \in DOMAIN log[cl] /\ log[cl][n].decision = "pending"
    BY <1>5 DEF IsPending
  <2>2. CASE cl = a.client
    BY <1>1, <1>2, <1>5, <2>1, <2>2 DEF IsPending
  <2>3. CASE cl # a.client
    BY <1>1, <2>1, <2>3 DEF IsPending
  <2>. QED  BY <2>2, <2>3
<1>6. ASSUME NEW cl \in Clients, NEW n \in DOMAIN log'[cl], log'[cl][n].decision = "pending"
      PROVE  IsPending(log, cl, n) /\ log'[cl][n] = log[cl][n] /\ Len(log'[cl]) = Len(log[cl])
  <2>1. CASE cl = a.client
    BY <1>1, <1>2, <1>4, <1>6, <2>1 DEF IsPending
  <2>2. CASE cl # a.client
    BY <1>1, <1>6, <2>2 DEF IsPending
  <2>. QED  BY <2>1, <2>2
<1>7. LogsOK'
  <2>1. \A cl \in Clients : \A n \in DOMAIN log'[cl] :
          log'[cl][n].decision = "pending" => ~log'[cl][n].executed
    BY <1>6 DEF IInv, LogsOK, IsPending
  <2>2. /\ DOMAIN context' = Clients
        /\ context' = [cl \in Clients |-> context'[cl]]
    BY <1>1, <1>3 DEF IInv, LogsOK
  <2>. QED  BY <1>1, <1>3, <2>1, <2>2 DEF IInv, LogsOK
<1>8. WayOK'
  <2>1. \A q \in requests' : IsPending(log', q.client, q.n) /\ q.call = log'[q.client][q.n].call
    BY <1>3, <1>5 DEF IInv, WayOK
  <2>2. \A b \in answers' : IsPending(log', b.client, b.n) /\ b.decision \in Settled
    BY <1>3, <1>5 DEF IInv, WayOK
  <2>. QED  BY <1>3, <2>1, <2>2 DEF IInv, WayOK
<1>9. LoopOK'
  <2>1. ASSUME NEW cl \in Clients, kind'[cl] = "loop", NEW n \in DOMAIN log'[cl],
               log'[cl][n].decision = "pending"
        PROVE  n = Len(log'[cl])
    BY <1>3, <1>6, <2>1 DEF IInv, LoopOK, IsPending
  <2>2. ASSUME NEW cl \in Clients, kind'[cl] = "loop", NEW r \in requests', r.client = cl
        PROVE  r.session_context = context'[cl]
    <3>1. cl # a.client
      <4>. SUFFICES ASSUME cl = a.client PROVE FALSE
        OBVIOUS
      <4>1. IsPending(log, cl, r.n) /\ IsPending(log, cl, a.n) /\ r.n # a.n
        BY <1>3, <2>2 DEF IInv, WayOK
      <4>. QED  BY <1>3, <2>2, <4>1 DEF IInv, LoopOK, IsPending
    <3>. QED  BY <1>3, <2>2, <3>1 DEF IInv, LogsOK, LoopOK
  <2>. QED  BY <2>1, <2>2 DEF LoopOK
<1>. QED  BY <1>7, <1>8, <1>9 DEF IInv

LEMMA ApproveStep ==
  ASSUME IInv, NEW client \in Clients, NEW n \in DOMAIN log[client], UserApproves(client, n)
  PROVE  /\ log' \in [Clients -> Seq(Entries)]
         /\ \A cl \in Clients \ {client} : log'[cl] = log[cl]
         /\ Len(log'[client]) = Len(log[client])
         /\ \A m \in DOMAIN log[client] \ {n} : log'[client][m] = log[client][m]
         /\ log'[client][n].decision = log[client][n].decision
         /\ log[client][n].decision # "pending"
<1>. DEFINE new == [log[client][n] EXCEPT !.executed = TRUE]
<1>1. log \in [Clients -> Seq(Entries)] /\ log[client][n] \in Entries
  BY ElementOfSeq DEF IInv, LogsOK
<1>2. new \in Entries /\ new.decision = log[client][n].decision
  BY <1>1 DEF Entries
<1>3. log' = [log EXCEPT ![client] = [@ EXCEPT ![n] = new]]
  BY <1>1 DEF UserApproves
<1>4. log[client][n].decision # "pending"
  BY DEF UserApproves, Outstanding
<1>. HIDE DEF new
<1>5. log'[client] = [log[client] EXCEPT ![n] = new]
  BY <1>1, <1>3
<1>6. log'[client] \in Seq(Entries) /\ Len(log'[client]) = Len(log[client])
  BY <1>1, <1>2, <1>5
<1>7. /\ log'[client][n] = new
      /\ \A m \in DOMAIN log[client] \ {n} : log'[client][m] = log[client][m]
  BY <1>1, <1>5
<1>8. /\ log' \in [Clients -> Seq(Entries)]
      /\ \A other \in Clients \ {client} : log'[other] = log[other]
  BY <1>1, <1>3, <1>5, <1>6
<1>. QED  BY <1>2, <1>4, <1>6, <1>7, <1>8

LEMMA ApproveIInv ==
  ASSUME IInv, NEW client \in Clients, NEW n \in DOMAIN log[client], UserApproves(client, n)
  PROVE  IInv'
<1>1. /\ log' \in [Clients -> Seq(Entries)]
      /\ \A cl \in Clients \ {client} : log'[cl] = log[cl]
      /\ Len(log'[client]) = Len(log[client])
      /\ \A m \in DOMAIN log[client] \ {n} : log'[client][m] = log[client][m]
      /\ log'[client][n].decision = log[client][n].decision
      /\ log[client][n].decision # "pending"
  BY ApproveStep
<1>2. DOMAIN log'[client] = DOMAIN log[client]
  BY <1>1 DEF IInv, LogsOK
<1>3. kind' = kind /\ requests' = requests /\ answers' = answers /\ context' = context
  BY DEF UserApproves
<1>4. ASSUME NEW cl, NEW m
      PROVE  /\ IsPending(log', cl, m) <=> IsPending(log, cl, m)
             /\ IsPending(log, cl, m) => log'[cl][m] = log[cl][m]
             /\ cl \in Clients => Len(log'[cl]) = Len(log[cl])
  <2>1. CASE cl = client
    BY <1>1, <1>2, <2>1 DEF IsPending
  <2>2. CASE cl # client
    BY <1>1, <2>2 DEF IsPending
  <2>. QED  BY <2>1, <2>2
<1>5. LogsOK'
  <2>1. \A cl \in Clients : \A m \in DOMAIN log'[cl] :
          log'[cl][m].decision = "pending" => ~log'[cl][m].executed
    <3>. SUFFICES ASSUME NEW cl \in Clients, NEW m \in DOMAIN log'[cl],
                         log'[cl][m].decision = "pending"
                  PROVE  ~log'[cl][m].executed
      OBVIOUS
    <3>1. IsPending(log, cl, m) /\ log'[cl][m] = log[cl][m]
      BY <1>4 DEF IsPending
    <3>. QED  BY <3>1 DEF IInv, LogsOK, IsPending
  <2>. QED  BY <1>1, <1>3, <2>1 DEF IInv, LogsOK
<1>6. WayOK'
  BY <1>3, <1>4 DEF IInv, WayOK
<1>7. LoopOK'
  <2>1. ASSUME NEW cl \in Clients, kind'[cl] = "loop", NEW m \in DOMAIN log'[cl],
               log'[cl][m].decision = "pending"
        PROVE  m = Len(log'[cl])
    <3>1. IsPending(log, cl, m) /\ Len(log'[cl]) = Len(log[cl])
      BY <1>4, <2>1 DEF IsPending
    <3>. QED  BY <1>3, <2>1, <3>1 DEF IInv, LoopOK, IsPending
  <2>. QED  BY <1>3, <2>1 DEF IInv, LoopOK
<1>. QED  BY <1>5, <1>6, <1>7 DEF IInv

LEMMA StepIInv == IInv /\ [Next]_vars => IInv'
<1>. SUFFICES ASSUME IInv, [Next]_vars PROVE IInv'
  OBVIOUS
<1>1. CASE \E client \in Clients, c \in Calls : Send(client, c)
  BY <1>1, SendIInv
<1>2. CASE \E r \in requests : ValidateAction(r)
  BY <1>2, ValidateIInv
<1>3. CASE \E a \in answers : Receive(a)
  BY <1>3, ReceiveIInv
<1>4. CASE \E client \in Clients : \E n \in DOMAIN log[client] : UserApproves(client, n)
  BY <1>4, ApproveIInv
<1>5. CASE UNCHANGED vars
  BY <1>5 DEF vars, IInv, LogsOK, WayOK, LoopOK
<1>. QED  BY <1>1, <1>2, <1>3, <1>4, <1>5 DEF Next

LEMMA AlwaysIInv == Spec => []IInv
BY InitIInv, StepIInv, PTL DEF Spec
-----------------------------------------------------------------------------
(* The calls that the engine with sessions has decided.                    *)
Seen == [call : Calls, decision : Settled]

(* What the views of a client depend on.                                   *)
Untouched(client) ==
  /\ kind' = kind
  /\ log'[client] = log[client]
  /\ context'[client] = context[client]
  /\ AnswersTo(client)' = AnswersTo(client)

Unseen(client) ==
  /\ SessionOf(client)' = SessionOf(client)
  /\ DecidedOf(client)' = DecidedOf(client)
  /\ ExecutedOf(client)' = ExecutedOf(client)

LEMMA UntouchedUnseen ==
  ASSUME NEW client, Untouched(client)
  PROVE  Unseen(client)
<1>1. AnswerTo(client)' = AnswerTo(client)
  BY DEF Untouched, AnswerTo
<1>2. SessionOf(client)' = SessionOf(client)
  BY <1>1 DEF Untouched, SessionOf
<1>3. DecidedOf(client)' = DecidedOf(client)
  BY <1>1 DEF Untouched, DecidedOf
<1>4. ExecutedOf(client)' = ExecutedOf(client)
  BY DEF Untouched, ExecutedOf
<1>. QED  BY <1>2, <1>3, <1>4 DEF Unseen

(* A client that does not loop has no session in the engine's place.       *)
LEMMA OthersUnseen ==
  ASSUME NEW client, kind[client] # "loop", kind' = kind
  PROVE  Unseen(client)
<1>1. SessionOf(client)' = SessionOf(client)
  BY DEF SessionOf
<1>2. DecidedOf(client)' = DecidedOf(client)
  BY DEF DecidedOf
<1>3. ExecutedOf(client) = {} /\ ExecutedOf(client)' = {}
  BY DEF ExecutedOf
<1>. QED  BY <1>1, <1>2, <1>3 DEF Unseen

LEMMA AllUnseen ==
  ASSUME \A client \in Clients : Unseen(client)
  PROVE  UNCHANGED Central!centralVars
BY DEF Unseen, Central!centralVars

LEMMA InitCentral == Init => Central!CentralInit
<1>. SUFFICES ASSUME Init PROVE Central!CentralInit
  OBVIOUS
<1>1. ASSUME NEW client \in Clients
      PROVE  SessionOf(client) = << >> /\ DecidedOf(client) = << >> /\ ExecutedOf(client) = {}
  <2>1. log[client] = << >> /\ AnswersTo(client) = {} /\ context[client] = << >>
    BY DEF Init, AnswersTo
  <2>2. DOMAIN log[client] = {}
    BY <2>1
  <2>3. SessionOf(client) = << >>
    BY <2>1 DEF SessionOf
  <2>4. DecidedOf(client) = << >>
    BY <2>1, <2>2 DEF DecidedOf
  <2>5. ExecutedOf(client) = {}
    BY <2>2 DEF ExecutedOf
  <2>. QED  BY <2>3, <2>4, <2>5
<1>. QED  BY <1>1 DEF Central!CentralInit

LEMMA SendUnseen ==
  ASSUME IInv, NEW client \in Clients, NEW c \in Calls, Send(client, c)
  PROVE  UNCHANGED Central!centralVars
<1>1. /\ log[client] \in Seq(Entries) /\ log'[client] \in Seq(Entries)
      /\ Len(log'[client]) = Len(log[client]) + 1
      /\ \A n \in 1..Len(log[client]) : log'[client][n] = log[client][n]
      /\ log'[client][Len(log[client]) + 1] =
           [call |-> c, decision |-> "pending", executed |-> FALSE]
      /\ \A other \in Clients \ {client} : log'[other] = log[other]
  BY SendStep
<1>2. kind' = kind /\ context' = context /\ answers' = answers /\ MaySend(client)
  BY DEF Send
<1>3. ASSUME NEW other \in Clients \ {client} PROVE Unseen(other)
  BY <1>1, <1>2, UntouchedUnseen DEF Untouched, AnswersTo
<1>4. ASSUME kind[client] = "loop" PROVE Unseen(client)
  <2>. DEFINE k == Len(log[client]) + 1
  <2>1. \A n \in DOMAIN log[client] : log[client][n].decision # "pending"
    BY <1>2, <1>4, NothingPending
  <2>2. AnswersTo(client) = {} /\ AnswersTo(client)' = {}
    BY <1>2, <2>1 DEF IInv, WayOK, IsPending, AnswersTo
  <2>3. /\ DOMAIN log[client] = 1..Len(log[client])
        /\ DOMAIN log'[client] = DOMAIN log[client] \cup {k}
        /\ k \notin DOMAIN log[client]
        /\ log'[client][k].decision = "pending" /\ log'[client][k].executed = FALSE
    BY <1>1
  <2>4. \A n \in DOMAIN log[client] : log'[client][n] = log[client][n]
    BY <1>1, <2>3
  <2>. HIDE DEF k
  <2>5. SessionOf(client)' = SessionOf(client)
    BY <1>2, <2>2 DEF SessionOf
  <2>6. { m \in DOMAIN log[client] : log[client][m].decision # "pending" } = DOMAIN log[client]
    BY <2>1
  <2>7. { m \in DOMAIN log'[client] : log'[client][m].decision # "pending" } = DOMAIN log[client]
    BY <2>1, <2>3, <2>4
  <2>8. DecidedOf(client) = [n \in DOMAIN log[client] |->
                               [call |-> log[client][n].call,
                                decision |-> log[client][n].decision]]
    BY <1>4, <2>1, <2>2, <2>6 DEF DecidedOf
  <2>9. DecidedOf(client)' = [n \in DOMAIN log[client] |->
                               [call |-> log[client][n].call,
                                decision |-> log[client][n].decision]]
    BY <1>2, <1>4, <2>1, <2>2, <2>4, <2>7 DEF DecidedOf
  <2>10. ExecutedOf(client)' = ExecutedOf(client)
    BY <1>2, <2>3, <2>4 DEF ExecutedOf
  <2>. QED  BY <2>5, <2>8, <2>9, <2>10 DEF Unseen
<1>5. Unseen(client)
  BY <1>2, <1>4, OthersUnseen
<1>. QED  BY <1>3, <1>5, AllUnseen

LEMMA ApproveUnseen ==
  ASSUME IInv, NEW client \in Clients, NEW n \in DOMAIN log[client], UserApproves(client, n)
  PROVE  UNCHANGED Central!centralVars
<1>1. /\ kind' = kind /\ context' = context /\ answers' = answers /\ kind[client] # "loop"
      /\ \A cl \in Clients \ {client} : log'[cl] = log[cl]
  BY ApproveStep DEF UserApproves
<1>2. ASSUME NEW cl \in Clients \ {client} PROVE Unseen(cl)
  BY <1>1, UntouchedUnseen DEF Untouched, AnswersTo
<1>3. Unseen(client)
  BY <1>1, OthersUnseen
<1>. QED  BY <1>2, <1>3, AllUnseen

(* What a looping client knows while an answer to it is on the way.        *)
LEMMA LoopAnswered ==
  ASSUME IInv, NEW a \in answers, kind[a.client] = "loop"
  PROVE  /\ AnswersTo(a.client) = {a} /\ AnswerTo(a.client) = a
         /\ \A n \in DOMAIN log[a.client] :
              log[a.client][n].decision = "pending" <=> n = a.n
<1>. DEFINE cl == a.client
<1>1. \A b \in answers : IsPending(log, b.client, b.n)
  BY DEF IInv, WayOK
<1>2. \A n : IsPending(log, cl, n) <=> n = a.n
  <2>1. cl \in Clients /\ IsPending(log, cl, a.n)
    BY <1>1 DEF IsPending
  <2>2. \A n \in DOMAIN log[cl] : log[cl][n].decision = "pending" => n = Len(log[cl])
    BY <2>1 DEF IInv, LoopOK
  <2>. QED  BY <2>1, <2>2 DEF IsPending
<1>3. AnswersTo(cl) = {a}
  BY <1>1, <1>2 DEF IInv, WayOK, AnswersTo
<1>4. AnswerTo(cl) = a
  BY <1>3 DEF AnswerTo
<1>. QED  BY <1>1, <1>2, <1>3, <1>4 DEF IsPending

LEMMA ReceiveCentral ==
  ASSUME IInv, NEW a \in answers, Receive(a)
  PROVE  [Central!CentralNext]_(Central!centralVars)
<1>. DEFINE cl == a.client
<1>1. /\ cl \in Clients /\ a.n \in DOMAIN log[cl]
      /\ log \in [Clients -> Seq(Entries)] /\ log' \in [Clients -> Seq(Entries)]
      /\ \A other \in Clients \ {cl} : log'[other] = log[other]
      /\ Len(log'[cl]) = Len(log[cl])
      /\ \A n \in DOMAIN log[cl] \ {a.n} : log'[cl][n] = log[cl][n]
      /\ log'[cl][a.n].call = log[cl][a.n].call
      /\ log'[cl][a.n].decision = a.decision
      /\ log'[cl][a.n].executed <=> Permitted(cl, a.decision)
  BY ReceiveStep DEF IInv, LogsOK
<1>2. /\ kind' = kind /\ answers' = answers \ {a}
      /\ context' = [context EXCEPT ![cl] = TakenOver(cl, a)]
      /\ DOMAIN context = Clients
  BY DEF Receive, IInv, LogsOK
<1>3. DOMAIN log'[cl] = DOMAIN log[cl]
  BY <1>1
<1>. HIDE DEF cl
<1>4. ASSUME NEW other \in Clients \ {cl} PROVE Unseen(other)
  BY <1>1, <1>2, UntouchedUnseen DEF Untouched, AnswersTo, cl
<1>5. CASE kind[cl] # "loop"
  BY <1>2, <1>4, <1>5, OthersUnseen, AllUnseen
<1>6. CASE kind[cl] = "loop"
  <2>1. /\ AnswersTo(cl) = {a} /\ AnswerTo(cl) = a
        /\ \A n \in DOMAIN log[cl] : log[cl][n].decision = "pending" <=> n = a.n
    BY <1>6, LoopAnswered DEF cl
  <2>2. AnswersTo(cl)' = {}
    BY <1>2, <2>1 DEF AnswersTo, cl
  <2>3. a.decision # "pending" /\ a.decision \in Settled
    BY DEF IInv, WayOK, Settled
  <2>4. context'[cl] = a.context
    BY <1>1, <1>2, <1>6 DEF TakenOver
  <2>5. SessionOf(cl)' = SessionOf(cl)
    <3>1. SessionOf(cl) = a.context
      BY <1>6, <2>1 DEF SessionOf
    <3>2. SessionOf(cl)' = context'[cl]
      BY <1>2, <1>6, <2>2 DEF SessionOf, cl
    <3>. QED  BY <2>4, <3>1, <3>2
  <2>6. DecidedOf(cl) = [n \in DOMAIN log[cl] |->
                           [call     |-> log[cl][n].call,
                            decision |-> IF n = a.n THEN a.decision ELSE log[cl][n].decision]]
    BY <1>6, <2>1 DEF DecidedOf
  <2>7. DecidedOf(cl)' = DecidedOf(cl)
    <3>1. { m \in DOMAIN log'[cl] : log'[cl][m].decision # "pending" } = DOMAIN log[cl]
      BY <1>1, <1>3, <2>1, <2>3
    <3>2. DecidedOf(cl)' = [n \in DOMAIN log[cl] |->
                              [call |-> log'[cl][n].call, decision |-> log'[cl][n].decision]]
      BY <1>2, <1>6, <2>2, <3>1 DEF DecidedOf, cl
    <3>. QED  BY <1>1, <2>6, <3>2
  <2>8. ExecutedOf(cl)' = IF Permitted(cl, a.decision) THEN ExecutedOf(cl) \cup {a.n}
                                                      ELSE ExecutedOf(cl)
    <3>1. ~log[cl][a.n].executed
      BY <1>1, <2>1 DEF IInv, LogsOK
    <3>2. \A n \in DOMAIN log[cl] :
            log'[cl][n].executed <=>
              log[cl][n].executed \/ (n = a.n /\ Permitted(cl, a.decision))
      BY <1>1, <3>1
    <3>3. ExecutedOf(cl) = { n \in DOMAIN log[cl] : log[cl][n].executed }
      BY <1>6 DEF ExecutedOf
    <3>4. ExecutedOf(cl)' = { n \in DOMAIN log[cl] : log'[cl][n].executed }
      BY <1>2, <1>3, <1>6 DEF ExecutedOf, cl
    <3>. QED  BY <1>1, <3>2, <3>3, <3>4
  <2>9. CASE ~Permitted(cl, a.decision)
    BY <1>4, <2>5, <2>7, <2>8, <2>9, AllUnseen DEF Unseen
  <2>10. CASE Permitted(cl, a.decision)
    <3>1. /\ a.n \in DOMAIN DecidedOf(cl) \ ExecutedOf(cl)
          /\ DecidedOf(cl)[a.n].decision = a.decision
      BY <1>1, <2>1, <2>6 DEF ExecutedOf, IInv, LogsOK
    <3>2. Central!should_execute(a.decision)
      BY <1>6, <2>10 DEF Permitted, may_execute, Central!should_execute
    <3>3. Central!Execute(cl)
      BY <1>1, <1>4, <2>5, <2>7, <2>8, <2>10, <3>1, <3>2 DEF Central!Execute, Unseen
    <3>. QED  BY <1>1, <3>3 DEF Central!CentralNext
  <2>. QED  BY <2>9, <2>10
<1>. QED  BY <1>5, <1>6

(* A function on 1..k is a sequence of length k.                           *)
LEMMA FunctionIsSeq ==
  ASSUME NEW S, NEW k \in Nat, NEW f \in [1..k -> S]
  PROVE  f \in Seq(S) /\ Len(f) = k
OBVIOUS

LEMMA ValidateCentral ==
  ASSUME IInv, NEW r \in requests, ValidateAction(r)
  PROVE  [Central!CentralNext]_(Central!centralVars)
<1>. DEFINE cl == r.client
<1>1. PICK a :
        /\ requests' = requests \ {r} /\ answers' = answers \cup {a}
        /\ a.client = r.client /\ a.n = r.n
        /\ a.decision = Central!Decision(r.session_context, r.call)
        /\ a.context = Central!Updated(r.session_context, r.call)
        /\ a.decision \in Settled
  BY ValidateStep
<1>2. kind' = kind /\ context' = context /\ log' = log
  BY DEF ValidateAction
<1>3. /\ cl \in Clients /\ r.n \in DOMAIN log[cl] /\ log[cl][r.n].decision = "pending"
      /\ r.call = log[cl][r.n].call /\ log[cl] \in Seq(Entries)
  BY DEF IInv, LogsOK, WayOK, IsPending
<1>. HIDE DEF cl
<1>4. ASSUME NEW other \in Clients \ {cl} PROVE Unseen(other)
  BY <1>1, <1>2, UntouchedUnseen DEF Untouched, AnswersTo, cl
<1>5. CASE kind[cl] # "loop"
  BY <1>2, <1>4, <1>5, OthersUnseen, AllUnseen
<1>6. CASE kind[cl] = "loop"
  <2>. DEFINE k == Len(log[cl])
              e == [call |-> r.call, decision |-> a.decision]
  <2>1. /\ r.n = k /\ k \in Nat \ {0}
        /\ \A n \in 1..k : log[cl][n].decision = "pending" <=> n = k
        /\ r.session_context = context[cl]
    BY <1>3, <1>6 DEF IInv, LoopOK, cl
  <2>2. AnswersTo(cl) = {}
    <3>1. \A b \in answers : b.client = cl => IsPending(log, cl, b.n) /\ b.n # r.n
      BY DEF IInv, WayOK, cl
    <3>2. \A n : IsPending(log, cl, n) => n = r.n
      BY <1>3, <2>1 DEF IsPending
    <3>. QED  BY <3>1, <3>2 DEF AnswersTo
  <2>3. AnswersTo(cl)' = {a} /\ AnswerTo(cl)' = a
    <3>1. AnswersTo(cl)' = {a}
      BY <1>1, <2>2 DEF AnswersTo, cl
    <3>. QED  BY <3>1 DEF AnswerTo
  <2>4. SessionOf(cl)' = Central!Updated(SessionOf(cl), r.call)
    BY <1>1, <1>2, <1>6, <2>1, <2>2, <2>3 DEF SessionOf
  <2>5. ExecutedOf(cl)' = ExecutedOf(cl)
    BY <1>2 DEF ExecutedOf
  <2>6. a.decision = Central!Decision(SessionOf(cl), r.call)
    BY <1>1, <1>6, <2>1, <2>2 DEF SessionOf
  <2>7. DOMAIN log[cl] = 1..k
    BY <1>3
  <2>8. \A n \in 1..k :
          log[cl][n].call \in Calls /\ log[cl][n].decision \in Settled \cup {"pending"}
    <3>1. \A n \in 1..k : log[cl][n] \in Entries
      BY <1>3, ElementOfSeq
    <3>. QED  BY <3>1 DEF Entries
  <2>9. log[cl][k].call = r.call /\ r.call \in Calls
    <3>1. k \in 1..k
      BY <2>1
    <3>. QED  BY <1>3, <2>1, <2>8, <3>1
  <2>. HIDE DEF k
  <2>10. DecidedOf(cl) = [n \in 1..(k - 1) |->
                            [call |-> log[cl][n].call, decision |-> log[cl][n].decision]]
    <3>1. { m \in DOMAIN log[cl] : log[cl][m].decision # "pending" } = 1..(k - 1)
      BY <2>1, <2>7
    <3>2. DecidedOf(cl) = [n \in 1..(k - 1) |->
             [call     |-> log[cl][n].call,
              decision |-> IF log[cl][n].decision # "pending" THEN log[cl][n].decision
                           ELSE AnswerTo(cl).decision]]
      BY <1>6, <2>2, <3>1 DEF DecidedOf
    <3>3. \A n \in 1..(k - 1) : log[cl][n].decision # "pending"
      BY <2>1
    <3>. QED  BY <3>2, <3>3
  <2>11. DecidedOf(cl)' = [n \in 1..k |->
                             [call     |-> log[cl][n].call,
                              decision |-> IF n = k THEN a.decision ELSE log[cl][n].decision]]
    <3>1. { m \in DOMAIN log[cl] : log[cl][m].decision # "pending" \/ {a} # {} } = 1..k
      BY <2>7
    <3>2. DecidedOf(cl)' = [n \in 1..k |->
             [call     |-> log[cl][n].call,
              decision |-> IF log[cl][n].decision # "pending" THEN log[cl][n].decision
                           ELSE a.decision]]
      BY <1>2, <1>6, <2>3, <3>1 DEF DecidedOf
    <3>. QED  BY <2>1, <3>2
  <2>12. DecidedOf(cl)' = Append(DecidedOf(cl), e)
    <3>. DEFINE before == [n \in 1..(k - 1) |->
                             [call |-> log[cl][n].call, decision |-> log[cl][n].decision]]
                after  == [n \in 1..k |->
                             [call     |-> log[cl][n].call,
                              decision |-> IF n = k THEN a.decision ELSE log[cl][n].decision]]
    <3>1. /\ e \in Seen /\ before \in [1..(k - 1) -> Seen] /\ after \in [1..k -> Seen]
      <4>1. \A n \in 1..(k - 1) : log[cl][n].decision \in Settled
        BY <2>1, <2>8
      <4>. QED  BY <1>1, <2>1, <2>8, <2>9, <4>1 DEF Seen
    <3>2. /\ before \in Seq(Seen) /\ Len(before) = k - 1
          /\ after \in Seq(Seen) /\ Len(after) = k
      <4>. HIDE DEF before, after
      <4>1. k \in Nat /\ k - 1 \in Nat
        BY <2>1
      <4>2. before \in Seq(Seen) /\ Len(before) = k - 1
        BY <3>1, <4>1, FunctionIsSeq
      <4>3. after \in Seq(Seen) /\ Len(after) = k
        BY <3>1, <4>1, FunctionIsSeq
      <4>. QED  BY <4>2, <4>3
    <3>3. after[k] = e /\ \A n \in 1..(k - 1) : after[n] = before[n]
      BY <2>1, <2>9
    <3>. HIDE DEF before, after, e
    <3>4. /\ Append(before, e) \in Seq(Seen) /\ Len(Append(before, e)) = k
          /\ \A n \in 1..(k - 1) : Append(before, e)[n] = before[n]
          /\ Append(before, e)[k] = e
      BY <2>1, <3>1, <3>2, AppendProperties
    <3>5. \A n \in 1..Len(after) : after[n] = Append(before, e)[n]
      BY <2>1, <3>2, <3>3, <3>4
    <3>6. after = Append(before, e)
      BY <3>2, <3>4, <3>5, SeqEqual
    <3>. QED  BY <2>10, <2>11, <3>6 DEF before, after
  <2>13. Central!Decide(cl, r.call)
    BY <1>3, <1>4, <2>4, <2>5, <2>6, <2>12 DEF Central!Decide, Unseen
  <2>. QED  BY <1>3, <2>9, <2>13 DEF Central!CentralNext
<1>. QED  BY <1>5, <1>6

(* To looping clients, beside whatever others, the engine that keeps no    *)
(* session is one that keeps a session for each.                           *)
THEOREM Refines == Spec => ImplementsCentral
<1>1. ASSUME IInv, [Next]_vars PROVE [Central!CentralNext]_(Central!centralVars)
  <2>1. CASE \E client \in Clients, c \in Calls : Send(client, c)
    BY <1>1, <2>1, SendUnseen
  <2>2. CASE \E r \in requests : ValidateAction(r)
    BY <1>1, <2>2, ValidateCentral
  <2>3. CASE \E a \in answers : Receive(a)
    BY <1>1, <2>3, ReceiveCentral
  <2>4. CASE \E client \in Clients : \E n \in DOMAIN log[client] : UserApproves(client, n)
    BY <1>1, <2>4, ApproveUnseen
  <2>5. CASE UNCHANGED vars
    <3>1. \A client \in Clients : Unseen(client)
      BY <2>5, UntouchedUnseen DEF vars, Untouched, AnswersTo
    <3>. QED  BY <3>1, AllUnseen
  <2>. QED  BY <1>1, <2>1, <2>2, <2>3, <2>4, <2>5 DEF Next
<1>. QED  BY <1>1, InitCentral, AlwaysIInv, PTL DEF Spec, ImplementsCentral, Central!CentralSpec
-----------------------------------------------------------------------------
(* What the calls of a client ask for, and a decision that rests on it.    *)
Asks(logs, cl, n) == ToSet(logs[cl][n].call.directed)

Asked(logs, cl, n) == UNION { Asks(logs, cl, m) : m \in 1..n }

Alike(kinds, cl) == kinds[cl] \in {"guard", "hook"}   \* every call as if it were the first

Justified(kinds, logs, cl, n, decision) ==
  decision \notin {"pending", logs[cl][n].call.preliminary} =>
    \E m \in 1..n :
      /\ Alike(kinds, cl) => m = n
      /\ Contains(logs[cl][m].call.directed, logs[cl][n].call.tool)

(* A context that holds what was asked for in the first n calls.           *)
Carries(kinds, logs, cl, n, carried) ==
  /\ Listed(carried, STRING)
  /\ ToSet(carried) \subseteq Asked(logs, cl, n)
  /\ Alike(kinds, cl) => ToSet(carried) = {}

OwnOK ==
  /\ \A cl \in Clients : Carries(kind, log, cl, Len(log[cl]), context[cl])
  /\ \A r \in requests : Carries(kind, log, r.client, r.n - 1, r.session_context)
  /\ \A a \in answers :
       /\ Listed(a.context, STRING)
       /\ ToSet(a.context) \subseteq Asked(log, a.client, a.n)
       /\ Justified(kind, log, a.client, a.n, a.decision)
  /\ \A cl \in Clients : \A n \in DOMAIN log[cl] :
       Justified(kind, log, cl, n, log[cl][n].decision)

(* A call that overlaps with no other is the only one that is pending.     *)
WaitOK ==
  /\ DOMAIN overlapped = Clients
  /\ \A cl \in Clients : IsFiniteSet(Asked(log, cl, Len(log[cl])))
  /\ \A cl \in Clients : \A n \in DOMAIN log[cl] \ overlapped[cl], m \in DOMAIN log[cl] :
       log[cl][n].decision = "pending" /\ log[cl][m].decision = "pending" => m = n

Room(logs, cl) == Cardinality(Asked(logs, cl, Len(logs[cl]))) <= SESSION_LIST_LIMIT

(* What was asked for is in the answer to the call and, once it is settled *)
(* and overlaps with no other, in whatever is carried from then on.        *)
KeptOK ==
  \A cl \in Clients : kind[cl] \in {"loop", "parallel"} /\ Room(log, cl) =>
    /\ \A a \in answers : a.client = cl => Asks(log, cl, a.n) \subseteq ToSet(a.context)
    /\ \A n \in DOMAIN log[cl] \ overlapped[cl] : log[cl][n].decision # "pending" =>
         /\ Asks(log, cl, n) \subseteq ToSet(context[cl])
         /\ \A r \in requests : r.client = cl => Asks(log, cl, n) \subseteq ToSet(r.session_context)
         /\ \A a \in answers : a.client = cl => Asks(log, cl, n) \subseteq ToSet(a.context)

LEMMA AskedParts ==
  ASSUME NEW logs, NEW cl, NEW n \in Nat
  PROVE  /\ \A m \in 1..n : Asks(logs, cl, m) \subseteq Asked(logs, cl, n)
         /\ \A k \in Nat : k <= n => Asked(logs, cl, k) \subseteq Asked(logs, cl, n)
         /\ Asked(logs, cl, n + 1) = Asked(logs, cl, n) \cup Asks(logs, cl, n + 1)
         /\ Asked(logs, cl, 0) = {}
<1>1. 1..(n + 1) = 1..n \cup {n + 1} /\ \A k \in Nat : k <= n => \A m \in 1..k : m \in 1..n
  OBVIOUS
<1>2. \A m \in 1..n : Asks(logs, cl, m) \subseteq Asked(logs, cl, n)
  BY DEF Asked
<1>3. \A k \in Nat : k <= n => Asked(logs, cl, k) \subseteq Asked(logs, cl, n)
  BY <1>1 DEF Asked
<1>4. Asked(logs, cl, n + 1) = Asked(logs, cl, n) \cup Asks(logs, cl, n + 1)
  BY <1>1 DEF Asked
<1>5. Asked(logs, cl, 0) = {}
  BY DEF Asked
<1>. QED  BY <1>2, <1>3, <1>4, <1>5

(* No step changes what was called.                                        *)
Grown ==
  /\ kind' = kind
  /\ \A cl \in Clients :
       /\ Len(log[cl]) \in Nat /\ Len(log'[cl]) \in Nat /\ Len(log[cl]) <= Len(log'[cl])
       /\ DOMAIN log[cl] = 1..Len(log[cl]) /\ DOMAIN log'[cl] = 1..Len(log'[cl])
       /\ \A n \in DOMAIN log[cl] : log'[cl][n].call = log[cl][n].call

LEMMA GrownKeeps ==
  ASSUME Grown, NEW cl \in Clients
  PROVE  /\ \A n \in DOMAIN log[cl] : Asks(log', cl, n) = Asks(log, cl, n)
         /\ \A n \in Nat : n <= Len(log[cl]) => Asked(log', cl, n) = Asked(log, cl, n)
         /\ \A n \in Nat : \A carried : n <= Len(log[cl]) =>
              (Carries(kind', log', cl, n, carried) <=> Carries(kind, log, cl, n, carried))
         /\ \A n \in DOMAIN log[cl] : \A decision :
              Justified(kind', log', cl, n, decision) <=> Justified(kind, log, cl, n, decision)
<1>1. /\ Len(log[cl]) \in Nat /\ DOMAIN log[cl] = 1..Len(log[cl])
      /\ \A n \in DOMAIN log[cl] : log'[cl][n].call = log[cl][n].call
      /\ kind' = kind
  BY DEF Grown
<1>2. \A n \in DOMAIN log[cl] : Asks(log', cl, n) = Asks(log, cl, n)
  BY <1>1 DEF Asks
<1>3. ASSUME NEW n \in Nat, n <= Len(log[cl]) PROVE Asked(log', cl, n) = Asked(log, cl, n)
  <2>1. \A m \in 1..n : m \in DOMAIN log[cl]
    BY <1>1, <1>3
  <2>. QED  BY <1>2, <2>1 DEF Asked
<1>4. \A n \in Nat : \A carried : n <= Len(log[cl]) =>
        (Carries(kind', log', cl, n, carried) <=> Carries(kind, log, cl, n, carried))
  BY <1>1, <1>3 DEF Carries
<1>5. ASSUME NEW n \in DOMAIN log[cl], NEW decision
      PROVE  Justified(kind', log', cl, n, decision) <=> Justified(kind, log, cl, n, decision)
  <2>1. \A m \in 1..n : m \in DOMAIN log[cl]
    BY <1>1
  <2>. QED  BY <1>1, <2>1 DEF Justified
<1>. QED  BY <1>2, <1>3, <1>4, <1>5

LEMMA SendGrown ==
  ASSUME IInv, NEW client \in Clients, NEW c \in Calls, Send(client, c)
  PROVE  Grown
<1>1. /\ log[client] \in Seq(Entries) /\ log'[client] \in Seq(Entries)
      /\ Len(log'[client]) = Len(log[client]) + 1
      /\ \A n \in 1..Len(log[client]) : log'[client][n] = log[client][n]
      /\ \A other \in Clients \ {client} : log'[other] = log[other]
  BY SendStep
<1>2. kind' = kind /\ log \in [Clients -> Seq(Entries)]
  BY DEF Send, IInv, LogsOK
<1>. QED  BY <1>1, <1>2 DEF Grown

LEMMA ValidateGrown ==
  ASSUME IInv, NEW r \in requests, ValidateAction(r)
  PROVE  Grown
BY DEF IInv, LogsOK, ValidateAction, Grown

LEMMA ReceiveGrown ==
  ASSUME IInv, NEW a \in answers, Receive(a)
  PROVE  Grown
<1>1. /\ log' \in [Clients -> Seq(Entries)] /\ log \in [Clients -> Seq(Entries)]
      /\ \A cl \in Clients \ {a.client} : log'[cl] = log[cl]
      /\ Len(log'[a.client]) = Len(log[a.client])
      /\ \A n \in DOMAIN log[a.client] \ {a.n} : log'[a.client][n] = log[a.client][n]
      /\ log'[a.client][a.n].call = log[a.client][a.n].call
      /\ kind' = kind
  BY ReceiveStep DEF IInv, LogsOK, Receive
<1>2. \A cl \in Clients : Len(log'[cl]) = Len(log[cl])
  BY <1>1
<1>3. \A cl \in Clients : \A n \in DOMAIN log[cl] : log'[cl][n].call = log[cl][n].call
  BY <1>1
<1>. QED  BY <1>1, <1>2, <1>3 DEF Grown

LEMMA ApproveGrown ==
  ASSUME IInv, NEW client \in Clients, NEW n \in DOMAIN log[client], UserApproves(client, n)
  PROVE  /\ Grown
         /\ \A cl \in Clients : Len(log'[cl]) = Len(log[cl])
         /\ \A cl \in Clients : \A m \in DOMAIN log[cl] : log'[cl][m].decision = log[cl][m].decision
<1>1. /\ log' \in [Clients -> Seq(Entries)] /\ log \in [Clients -> Seq(Entries)]
      /\ \A cl \in Clients \ {client} : log'[cl] = log[cl]
      /\ Len(log'[client]) = Len(log[client])
      /\ \A m \in DOMAIN log[client] \ {n} : log'[client][m] = log[client][m]
      /\ log'[client][n].decision = log[client][n].decision
      /\ kind' = kind
  BY ApproveStep DEF IInv, LogsOK, UserApproves
<1>2. log'[client][n].call = log[client][n].call
  <2>. DEFINE new == [log[client][n] EXCEPT !.executed = TRUE]
  <2>1. log[client][n] \in Entries
    BY <1>1, ElementOfSeq
  <2>2. new.call = log[client][n].call
    BY <2>1 DEF Entries
  <2>3. log' = [log EXCEPT ![client] = [@ EXCEPT ![n] = new]]
    BY <1>1, <2>1 DEF UserApproves
  <2>. HIDE DEF new
  <2>4. log'[client][n] = new
    BY <1>1, <2>3
  <2>. QED  BY <2>2, <2>4
<1>3. \A cl \in Clients : Len(log'[cl]) = Len(log[cl])
  BY <1>1
<1>4. \A cl \in Clients : \A m \in DOMAIN log[cl] :
        log'[cl][m].call = log[cl][m].call /\ log'[cl][m].decision = log[cl][m].decision
  BY <1>1, <1>2
<1>. QED  BY <1>1, <1>3, <1>4 DEF Grown

(* The session of the abstract engine is a list like the context.          *)
LEMMA CentralUpdated ==
  ASSUME NEW ctx, NEW c
  PROVE  Central!Updated(ctx, c) = RememberAll(ctx, c.directed)
BY Zenon DEF Central!Updated, Central!RememberAll, RememberAll, Central!Remember, Remember,
  Central!BoundedAppend, BoundedAppend, Central!LastN, LastN, Central!Without, Without,
  Central!RemoveAt, RemoveAt, Central!FoldLeft, FoldLeft,
  Central!MapThenFoldSet, MapThenFoldSet, Central!Max, Max

(* The engine's answer: what was carried, with what the call asks for.     *)
LEMMA Answered ==
  ASSUME IInv, NEW r \in requests, ValidateAction(r),
         Carries(kind, log, r.client, r.n - 1, r.session_context)
  PROVE  \E a :
    /\ requests' = requests \ {r} /\ answers' = answers \cup {a}
    /\ a.client = r.client /\ a.n = r.n
    /\ Listed(a.context, STRING)
    /\ ToSet(a.context) \subseteq Asked(log, r.client, r.n)
    /\ Justified(kind, log, r.client, r.n, a.decision)
    /\ Cardinality(ToSet(r.session_context) \cup Asks(log, r.client, r.n)) <= SESSION_LIST_LIMIT
         => ToSet(a.context) = ToSet(r.session_context) \cup Asks(log, r.client, r.n)
<1>1. PICK a :
    /\ requests' = requests \ {r} /\ answers' = answers \cup {a}
    /\ a.client = r.client /\ a.n = r.n
    /\ a.decision = Central!Decision(r.session_context, r.call)
    /\ a.context = Central!Updated(r.session_context, r.call)
  BY ValidateStep
<1>. DEFINE ctx == r.session_context
            directed == r.call.directed
            after == RememberAll(ctx, directed)
<1>2. /\ r.client \in Clients /\ r.n \in DOMAIN log[r.client] /\ r.n \in Nat \ {0}
      /\ r.call = log[r.client][r.n].call /\ r.call \in Calls
  <2>1. log[r.client] \in Seq(Entries) /\ r.client \in Clients /\ r.n \in DOMAIN log[r.client]
    BY DEF IInv, LogsOK, WayOK, IsPending
  <2>2. log[r.client][r.n] \in Entries /\ r.call = log[r.client][r.n].call
    BY <2>1, ElementOfSeq DEF IInv, WayOK
  <2>3. r.n \in Nat \ {0}
    BY <2>1
  <2>. QED  BY <2>1, <2>2, <2>3 DEF Entries
<1>3. directed \in Seq(STRING) /\ ToSet(directed) = Asks(log, r.client, r.n)
  BY <1>2, CallsAssumption DEF Asks
<1>4. a.context = after
  BY <1>1, CentralUpdated
<1>5. a.decision # r.call.preliminary => Contains(after, r.call.tool)
  BY <1>1, <1>4 DEF Central!Decision, Central!Contains, Contains
<1>6. /\ Listed(ctx, STRING) /\ ToSet(ctx) \subseteq Asked(log, r.client, r.n - 1)
      /\ Alike(kind, r.client) => ToSet(ctx) = {}
  BY DEF Carries
<1>. HIDE DEF ctx, directed, after
<1>7. /\ Listed(after, STRING) /\ ToSet(after) \subseteq ToSet(ctx) \cup ToSet(directed)
      /\ Cardinality(ToSet(ctx) \cup ToSet(directed)) <= SESSION_LIST_LIMIT
           => ToSet(after) = ToSet(ctx) \cup ToSet(directed)
  BY <1>3, <1>6, RememberedAll DEF after
<1>8. Asked(log, r.client, r.n) = Asked(log, r.client, r.n - 1) \cup Asks(log, r.client, r.n)
  <2>1. r.n - 1 \in Nat /\ (r.n - 1) + 1 = r.n
    BY <1>2
  <2>2. Asked(log, r.client, (r.n - 1) + 1)
          = Asked(log, r.client, r.n - 1) \cup Asks(log, r.client, (r.n - 1) + 1)
    BY <2>1, AskedParts
  <2>. QED  BY <2>1, <2>2
<1>9. Justified(kind, log, r.client, r.n, a.decision)
  <2>. SUFFICES ASSUME a.decision # r.call.preliminary
                PROVE  \E m \in 1..r.n :
                         /\ Alike(kind, r.client) => m = r.n
                         /\ Contains(log[r.client][m].call.directed, r.call.tool)
    BY <1>2 DEF Justified
  <2>1. r.call.tool \in ToSet(ctx) \cup ToSet(directed)
    <3>1. Among(r.call.tool, after)
      BY <1>5 DEF Contains, Among
    <3>2. r.call.tool \in ToSet(after)
      BY <1>7, <3>1, AmongToSet DEF Listed
    <3>. QED  BY <1>7, <3>2
  <2>2. \A m \in 1..r.n : r.call.tool \in Asks(log, r.client, m) =>
          Contains(log[r.client][m].call.directed, r.call.tool)
    <3>. SUFFICES ASSUME NEW m \in 1..r.n, r.call.tool \in Asks(log, r.client, m)
                  PROVE  Contains(log[r.client][m].call.directed, r.call.tool)
      OBVIOUS
    <3>1. log[r.client] \in Seq(Entries) /\ m \in DOMAIN log[r.client]
      BY <1>2 DEF IInv, LogsOK
    <3>2. log[r.client][m].call \in Calls
      <4>1. log[r.client][m] \in Entries
        BY <3>1, ElementOfSeq
      <4>. QED  BY <4>1 DEF Entries
    <3>3. log[r.client][m].call.directed \in Seq(STRING)
      BY <3>2, CallsAssumption
    <3>4. Among(r.call.tool, log[r.client][m].call.directed)
      BY <3>3, AmongToSet DEF Asks
    <3>. QED  BY <3>4 DEF Among, Contains
  <2>3. CASE r.call.tool \in ToSet(directed)
    <3>1. r.n \in 1..r.n
      BY <1>2
    <3>. QED  BY <1>3, <2>2, <2>3, <3>1
  <2>4. CASE r.call.tool \in ToSet(ctx)
    <3>1. ~Alike(kind, r.client) /\ r.call.tool \in Asked(log, r.client, r.n - 1)
      BY <1>6, <2>4
    <3>2. PICK m \in 1..(r.n - 1) : r.call.tool \in Asks(log, r.client, m)
      BY <3>1 DEF Asked
    <3>3. m \in 1..r.n
      BY <1>2
    <3>. QED  BY <2>2, <3>1, <3>2, <3>3
  <2>. QED  BY <2>1, <2>3, <2>4
<1>. WITNESS a
<1>10. ToSet(a.context) \subseteq Asked(log, r.client, r.n)
  BY <1>3, <1>4, <1>6, <1>7, <1>8
<1>. QED  BY <1>1, <1>3, <1>4, <1>7, <1>9, <1>10 DEF ctx

(* What a state says of a request or an answer on its way.                 *)
LEMMA OnTheWay ==
  ASSUME IInv
  PROVE  /\ \A r \in requests : /\ r.client \in Clients /\ r.n \in DOMAIN log[r.client]
                                /\ log[r.client][r.n].decision = "pending"
         /\ \A a \in answers : /\ a.client \in Clients /\ a.n \in DOMAIN log[a.client]
                               /\ log[a.client][a.n].decision = "pending"
         /\ \A cl \in Clients : /\ log[cl] \in Seq(Entries) /\ Len(log[cl]) \in Nat
                                /\ DOMAIN log[cl] = 1..Len(log[cl])
         /\ DOMAIN context = Clients
BY DEF IInv, LogsOK, WayOK, IsPending

(* A step that changes no decision leaves what it does not touch.          *)
LEMMA CarriedOn ==
  ASSUME IInv, Grown, OwnOK
  PROVE  /\ \A cl \in Clients : context'[cl] = context[cl] =>
              Carries(kind', log', cl, Len(log'[cl]), context'[cl])
         /\ \A r \in requests : Carries(kind', log', r.client, r.n - 1, r.session_context)
         /\ \A a \in answers :
              /\ Listed(a.context, STRING)
              /\ ToSet(a.context) \subseteq Asked(log', a.client, a.n)
              /\ Justified(kind', log', a.client, a.n, a.decision)
         /\ \A cl \in Clients : \A n \in DOMAIN log[cl] :
              log'[cl][n].decision = log[cl][n].decision =>
                Justified(kind', log', cl, n, log'[cl][n].decision)
<1>1. /\ \A cl \in Clients : Carries(kind, log, cl, Len(log[cl]), context[cl])
      /\ \A r \in requests : Carries(kind, log, r.client, r.n - 1, r.session_context)
      /\ \A a \in answers :
           /\ Listed(a.context, STRING)
           /\ ToSet(a.context) \subseteq Asked(log, a.client, a.n)
           /\ Justified(kind, log, a.client, a.n, a.decision)
      /\ \A cl \in Clients : \A n \in DOMAIN log[cl] :
           Justified(kind, log, cl, n, log[cl][n].decision)
  BY DEF OwnOK
<1>2. ASSUME NEW cl \in Clients, context'[cl] = context[cl]
      PROVE  Carries(kind', log', cl, Len(log'[cl]), context'[cl])
  <2>1. /\ Len(log[cl]) \in Nat /\ Len(log'[cl]) \in Nat /\ Len(log[cl]) <= Len(log'[cl])
    BY DEF Grown
  <2>2. Carries(kind', log', cl, Len(log[cl]), context[cl])
    BY <1>1, <2>1, GrownKeeps
  <2>3. Asked(log', cl, Len(log[cl])) \subseteq Asked(log', cl, Len(log'[cl]))
    BY <2>1, AskedParts
  <2>. QED  BY <1>2, <2>2, <2>3 DEF Carries
<1>3. ASSUME NEW r \in requests
      PROVE  Carries(kind', log', r.client, r.n - 1, r.session_context)
  <2>1. r.client \in Clients /\ r.n - 1 \in Nat /\ r.n - 1 <= Len(log[r.client])
    BY OnTheWay
  <2>. QED  BY <1>1, <2>1, GrownKeeps
<1>4. ASSUME NEW a \in answers
      PROVE  /\ Listed(a.context, STRING)
             /\ ToSet(a.context) \subseteq Asked(log', a.client, a.n)
             /\ Justified(kind', log', a.client, a.n, a.decision)
  <2>1. a.client \in Clients /\ a.n \in DOMAIN log[a.client]
        /\ a.n \in Nat /\ a.n <= Len(log[a.client])
    BY OnTheWay
  <2>. QED  BY <1>1, <2>1, GrownKeeps
<1>5. ASSUME NEW cl \in Clients, NEW n \in DOMAIN log[cl],
             log'[cl][n].decision = log[cl][n].decision
      PROVE  Justified(kind', log', cl, n, log'[cl][n].decision)
  BY <1>1, <1>5, GrownKeeps
<1>. QED  BY <1>2, <1>3, <1>4, <1>5

LEMMA SendOwn ==
  ASSUME IInv, OwnOK, NEW client \in Clients, NEW c \in Calls, Send(client, c)
  PROVE  OwnOK'
<1>. DEFINE q == RequestOf(client, c)
            k == Len(log[client]) + 1
<1>1. /\ log[client] \in Seq(Entries)
      /\ Len(log'[client]) = k
      /\ \A n \in 1..Len(log[client]) : log'[client][n] = log[client][n]
      /\ log'[client][k] = [call |-> c, decision |-> "pending", executed |-> FALSE]
      /\ \A other \in Clients \ {client} : log'[other] = log[other]
  BY SendStep
<1>2. Grown
  BY SendGrown
<1>3. /\ requests' = requests \cup {q} /\ context' = context /\ answers' = answers
  BY DEF Send
<1>4. q.client = client /\ q.n - 1 = Len(log[client]) /\ q.session_context = context[client]
  BY <1>1 DEF RequestOf
<1>5. Carries(kind', log', q.client, q.n - 1, q.session_context)
  <2>1. Carries(kind, log, client, Len(log[client]), context[client])
    BY DEF OwnOK
  <2>. QED  BY <1>1, <1>2, <1>4, <2>1, GrownKeeps
<1>6. ASSUME NEW cl \in Clients, NEW n \in DOMAIN log'[cl]
      PROVE  Justified(kind', log', cl, n, log'[cl][n].decision)
  <2>1. CASE n \in DOMAIN log[cl]
    <3>1. log'[cl][n].decision = log[cl][n].decision
      BY <1>1, <2>1
    <3>. QED  BY <1>2, <2>1, <3>1, CarriedOn
  <2>2. CASE n \notin DOMAIN log[cl]
    <3>1. cl = client /\ n = k
      BY <1>1, <1>2, <2>2 DEF Grown
    <3>. QED  BY <1>1, <3>1 DEF Justified
  <2>. QED  BY <2>1, <2>2
<1>. HIDE DEF q
<1>7. \A cl \in Clients : Carries(kind', log', cl, Len(log'[cl]), context'[cl])
  BY <1>2, <1>3, CarriedOn
<1>8. \A r \in requests' : Carries(kind', log', r.client, r.n - 1, r.session_context)
  BY <1>2, <1>3, <1>5, CarriedOn
<1>9. \A a \in answers' :
        /\ Listed(a.context, STRING)
        /\ ToSet(a.context) \subseteq Asked(log', a.client, a.n)
        /\ Justified(kind', log', a.client, a.n, a.decision)
  BY <1>2, <1>3, CarriedOn
<1>. QED  BY <1>6, <1>7, <1>8, <1>9 DEF OwnOK

LEMMA ValidateOwn ==
  ASSUME IInv, OwnOK, NEW r \in requests, ValidateAction(r)
  PROVE  OwnOK'
<1>1. Carries(kind, log, r.client, r.n - 1, r.session_context)
  BY DEF OwnOK
<1>2. PICK a :
        /\ requests' = requests \ {r} /\ answers' = answers \cup {a}
        /\ a.client = r.client /\ a.n = r.n
        /\ Listed(a.context, STRING)
        /\ ToSet(a.context) \subseteq Asked(log, r.client, r.n)
        /\ Justified(kind, log, r.client, r.n, a.decision)
  BY <1>1, Answered
<1>3. kind' = kind /\ context' = context /\ log' = log
  BY DEF ValidateAction
<1>. QED  BY <1>2, <1>3 DEF OwnOK

LEMMA ReceiveOwn ==
  ASSUME IInv, OwnOK, NEW a \in answers, Receive(a)
  PROVE  OwnOK'
<1>1. /\ a.client \in Clients /\ a.n \in DOMAIN log[a.client]
      /\ \A cl \in Clients \ {a.client} : log'[cl] = log[cl]
      /\ Len(log'[a.client]) = Len(log[a.client])
      /\ \A n \in DOMAIN log[a.client] \ {a.n} : log'[a.client][n] = log[a.client][n]
      /\ log'[a.client][a.n].decision = a.decision
  BY ReceiveStep
<1>2. Grown
  BY ReceiveGrown
<1>3. /\ requests' = requests /\ answers' = answers \ {a} /\ kind' = kind
      /\ context' = [context EXCEPT ![a.client] = TakenOver(a.client, a)]
  BY DEF Receive
<1>4. /\ Listed(a.context, STRING) /\ ToSet(a.context) \subseteq Asked(log', a.client, a.n)
      /\ Justified(kind', log', a.client, a.n, a.decision)
  BY <1>2, CarriedOn
<1>5. \A cl \in Clients \ {a.client} : context'[cl] = context[cl]
  BY <1>3, OnTheWay
<1>6. context'[a.client] = TakenOver(a.client, a)
  BY <1>1, <1>3, OnTheWay
<1>7. Carries(kind', log', a.client, Len(log'[a.client]), context'[a.client])
  <2>1. CASE kind[a.client] \in {"loop", "parallel"}
    <3>1. context'[a.client] = a.context /\ ~Alike(kind', a.client)
      BY <1>3, <1>6, <2>1 DEF TakenOver, Alike
    <3>2. a.n \in Nat /\ a.n <= Len(log'[a.client]) /\ Len(log'[a.client]) \in Nat
      BY <1>1, OnTheWay
    <3>3. Asked(log', a.client, a.n) \subseteq Asked(log', a.client, Len(log'[a.client]))
      BY <3>2, AskedParts
    <3>. QED  BY <1>4, <3>1, <3>3 DEF Carries
  <2>2. CASE kind[a.client] \notin {"loop", "parallel"}
    <3>1. context'[a.client] = context[a.client]
      BY <1>6, <2>2 DEF TakenOver
    <3>. QED  BY <1>1, <1>2, <3>1, CarriedOn
  <2>. QED  BY <2>1, <2>2
<1>8. \A cl \in Clients : Carries(kind', log', cl, Len(log'[cl]), context'[cl])
  BY <1>2, <1>5, <1>7, CarriedOn
<1>9. ASSUME NEW cl \in Clients, NEW n \in DOMAIN log'[cl]
      PROVE  Justified(kind', log', cl, n, log'[cl][n].decision)
  <2>1. n \in DOMAIN log[cl]
    BY <1>1, <1>2 DEF Grown
  <2>2. CASE cl = a.client /\ n = a.n
    BY <1>1, <1>4, <2>2
  <2>3. CASE ~(cl = a.client /\ n = a.n)
    <3>1. log'[cl][n].decision = log[cl][n].decision
      BY <1>1, <2>1, <2>3
    <3>. QED  BY <1>2, <2>1, <3>1, CarriedOn
  <2>. QED  BY <2>2, <2>3
<1>10. \A r \in requests' : Carries(kind', log', r.client, r.n - 1, r.session_context)
  BY <1>2, <1>3, CarriedOn
<1>11. \A b \in answers' :
         /\ Listed(b.context, STRING)
         /\ ToSet(b.context) \subseteq Asked(log', b.client, b.n)
         /\ Justified(kind', log', b.client, b.n, b.decision)
  BY <1>2, <1>3, CarriedOn
<1>. QED  BY <1>8, <1>9, <1>10, <1>11 DEF OwnOK

LEMMA ApproveOwn ==
  ASSUME IInv, OwnOK, NEW client \in Clients, NEW n \in DOMAIN log[client], UserApproves(client, n)
  PROVE  OwnOK'
<1>1. /\ Grown
      /\ \A cl \in Clients : Len(log'[cl]) = Len(log[cl])
      /\ \A cl \in Clients : \A m \in DOMAIN log[cl] : log'[cl][m].decision = log[cl][m].decision
  BY ApproveGrown
<1>2. requests' = requests /\ answers' = answers /\ context' = context
  BY DEF UserApproves
<1>3. \A cl \in Clients : DOMAIN log'[cl] = DOMAIN log[cl]
  BY <1>1 DEF Grown
<1>4. \A cl \in Clients : Carries(kind', log', cl, Len(log'[cl]), context'[cl])
  BY <1>1, <1>2, CarriedOn
<1>5. \A r \in requests' : Carries(kind', log', r.client, r.n - 1, r.session_context)
  BY <1>1, <1>2, CarriedOn
<1>6. \A a \in answers' :
        /\ Listed(a.context, STRING)
        /\ ToSet(a.context) \subseteq Asked(log', a.client, a.n)
        /\ Justified(kind', log', a.client, a.n, a.decision)
  BY <1>1, <1>2, CarriedOn
<1>7. \A cl \in Clients : \A m \in DOMAIN log'[cl] :
        Justified(kind', log', cl, m, log'[cl][m].decision)
  BY <1>1, <1>3, CarriedOn
<1>. QED  BY <1>4, <1>5, <1>6, <1>7 DEF OwnOK

LEMMA StepOwn == IInv /\ OwnOK /\ [Next]_vars => OwnOK'
<1>. SUFFICES ASSUME IInv, OwnOK, [Next]_vars PROVE OwnOK'
  OBVIOUS
<1>1. CASE \E client \in Clients, c \in Calls : Send(client, c)
  BY <1>1, SendOwn
<1>2. CASE \E r \in requests : ValidateAction(r)
  BY <1>2, ValidateOwn
<1>3. CASE \E a \in answers : Receive(a)
  BY <1>3, ReceiveOwn
<1>4. CASE \E client \in Clients : \E n \in DOMAIN log[client] : UserApproves(client, n)
  BY <1>4, ApproveOwn
<1>5. CASE UNCHANGED vars
  BY <1>5 DEF vars, OwnOK
<1>. QED  BY <1>1, <1>2, <1>3, <1>4, <1>5 DEF Next

LEMMA InitOwn == Init => OwnOK
<1>. SUFFICES ASSUME Init PROVE OwnOK
  OBVIOUS
<1>1. ToSet(<< >>) = {} /\ Listed(<< >>, STRING)
  BY EmptySeq, ListLimitAssumption DEF ToSet, Listed, Distinct
<1>2. \A cl \in Clients : context[cl] = << >> /\ log[cl] = << >>
  BY DEF Init
<1>. QED  BY <1>1, <1>2 DEF Init, OwnOK, Carries

(* Of any clients beside each other, the decision on a call departs from   *)
(* what rules and policy say only for what the client's own calls asked    *)
(* for, and through a guard or a hook for what the call itself asked.      *)
THEOREM HeldForOwn == Spec => []HeldOnlyForOwn
<1>1. OwnOK => HeldOnlyForOwn
  BY DEF OwnOK, Justified, Alike, HeldOnlyForOwn
<1>. QED  BY <1>1, InitOwn, StepOwn, AlwaysIInv, PTL DEF Spec
-----------------------------------------------------------------------------
LEMMA InitWait == Init => WaitOK
<1>. SUFFICES ASSUME Init PROVE WaitOK
  OBVIOUS
<1>1. \A cl \in Clients : log[cl] = << >>
  BY DEF Init
<1>2. \A cl \in Clients : Asked(log, cl, Len(log[cl])) = {}
  BY <1>1, AskedParts
<1>. QED  BY <1>1, <1>2, FS_EmptySet DEF Init, WaitOK

LEMMA SendWait ==
  ASSUME IInv, WaitOK, NEW client \in Clients, NEW c \in Calls, Send(client, c)
  PROVE  WaitOK'
<1>. DEFINE k == Len(log[client]) + 1
<1>1. /\ log[client] \in Seq(Entries) /\ Len(log[client]) \in Nat
      /\ Len(log'[client]) = k
      /\ \A n \in 1..Len(log[client]) : log'[client][n] = log[client][n]
      /\ log'[client][k] = [call |-> c, decision |-> "pending", executed |-> FALSE]
      /\ \A other \in Clients \ {client} : log'[other] = log[other]
  BY SendStep, OnTheWay
<1>2. Grown
  BY SendGrown
<1>3. overlapped' = IF Outstanding(client) = {} THEN overlapped
                    ELSE [overlapped EXCEPT ![client] = @ \cup Outstanding(client) \cup {k}]
  BY DEF Send
<1>4. DOMAIN overlapped' = Clients
      /\ \A cl \in Clients \ {client} : overlapped'[cl] = overlapped[cl]
  BY <1>3 DEF WaitOK
<1>5. Outstanding(client) # {} => overlapped'[client] = overlapped[client] \cup Outstanding(client) \cup {k}
  BY <1>3 DEF WaitOK
<1>6. ASSUME NEW cl \in Clients PROVE IsFiniteSet(Asked(log', cl, Len(log'[cl])))
  <2>1. IsFiniteSet(Asked(log, cl, Len(log[cl]))) /\ Len(log[cl]) \in Nat
    BY OnTheWay DEF WaitOK
  <2>2. Asked(log', cl, Len(log[cl])) = Asked(log, cl, Len(log[cl]))
    BY <1>2, <2>1, GrownKeeps
  <2>3. CASE cl = client
    <3>1. Asked(log', cl, k) = Asked(log', cl, Len(log[cl])) \cup Asks(log', cl, k)
      BY <2>1, <2>3, AskedParts
    <3>2. Asks(log', cl, k) = ToSet(c.directed) /\ c.directed \in Seq(STRING)
      BY <1>1, <2>3, CallsAssumption DEF Asks
    <3>3. IsFiniteSet(Asks(log', cl, k))
      BY <3>2, AmongToSet
    <3>4. IsFiniteSet(Asked(log', cl, Len(log[cl])))
      BY <2>1, <2>2
    <3>5. IsFiniteSet(Asked(log', cl, Len(log[cl])) \cup Asks(log', cl, k))
      BY <3>3, <3>4, FS_Union, Zenon
    <3>6. IsFiniteSet(Asked(log', cl, k))
      BY <3>1, <3>5, Zenon
    <3>. QED  BY <1>1, <2>3, <3>6
  <2>4. CASE cl # client
    BY <1>1, <2>1, <2>2, <2>4
  <2>. QED  BY <2>3, <2>4
<1>7. ASSUME NEW cl \in Clients, NEW n \in DOMAIN log'[cl] \ overlapped'[cl],
             NEW m \in DOMAIN log'[cl],
             log'[cl][n].decision = "pending", log'[cl][m].decision = "pending"
      PROVE  m = n
  <2>1. CASE cl # client
    BY <1>1, <1>4, <1>7, <2>1 DEF WaitOK
  <2>2. CASE cl = client
    <3>1. \A j \in DOMAIN log'[cl] : j = k \/ (j \in DOMAIN log[cl] /\ log'[cl][j] = log[cl][j])
      <4>1. /\ DOMAIN log[client] = 1..Len(log[client])
            /\ DOMAIN log'[client] = 1..(Len(log[client]) + 1)
        BY <1>1, <1>2 DEF Grown
      <4>2. 1..(Len(log[client]) + 1) = 1..Len(log[client]) \cup {k}
        BY <1>1
      <4>. QED  BY <1>1, <2>2, <4>1, <4>2
    <3>2. \A j \in DOMAIN log'[cl] : log'[cl][j].decision = "pending" =>
            j \in Outstanding(client) \cup {k}
      BY <2>2, <3>1 DEF Outstanding
    <3>3. CASE Outstanding(client) = {}
      BY <1>7, <3>2, <3>3
    <3>4. CASE Outstanding(client) # {}
      BY <1>5, <1>7, <2>2, <3>2, <3>4
    <3>. QED  BY <3>3, <3>4
  <2>. QED  BY <2>1, <2>2
<1>. QED  BY <1>4, <1>6, <1>7 DEF WaitOK

(* A step that sends nothing leaves nothing newly pending.                 *)
LEMMA OtherWait ==
  ASSUME IInv, WaitOK, Grown, overlapped' = overlapped,
         \A cl \in Clients : Len(log'[cl]) = Len(log[cl]),
         \A cl \in Clients : \A n \in DOMAIN log[cl] :
           log'[cl][n].decision = "pending" => log[cl][n].decision = "pending"
  PROVE  WaitOK'
<1>1. \A cl \in Clients : DOMAIN log'[cl] = DOMAIN log[cl] /\ Len(log[cl]) \in Nat
  BY DEF Grown
<1>2. \A cl \in Clients : Asked(log', cl, Len(log'[cl])) = Asked(log, cl, Len(log[cl]))
  BY <1>1, GrownKeeps
<1>. QED  BY <1>1, <1>2 DEF WaitOK

LEMMA ValidateWait ==
  ASSUME IInv, WaitOK, NEW r \in requests, ValidateAction(r)
  PROVE  WaitOK'
BY DEF ValidateAction, WaitOK

LEMMA ReceiveSettles ==
  ASSUME IInv, NEW a \in answers, Receive(a)
  PROVE  /\ overlapped' = overlapped
         /\ \A cl \in Clients : Len(log'[cl]) = Len(log[cl])
         /\ \A cl \in Clients : \A n \in DOMAIN log[cl] :
              /\ ~(cl = a.client /\ n = a.n) => log'[cl][n] = log[cl][n]
              /\ cl = a.client /\ n = a.n => log'[cl][n].decision # "pending"
<1>1. /\ \A cl \in Clients \ {a.client} : log'[cl] = log[cl]
      /\ Len(log'[a.client]) = Len(log[a.client])
      /\ \A n \in DOMAIN log[a.client] \ {a.n} : log'[a.client][n] = log[a.client][n]
      /\ log'[a.client][a.n].decision = a.decision
  BY ReceiveStep
<1>2. overlapped' = overlapped /\ a.decision # "pending"
  BY DEF Receive, IInv, WayOK, Settled
<1>. QED  BY <1>1, <1>2

LEMMA ReceiveWait ==
  ASSUME IInv, WaitOK, NEW a \in answers, Receive(a)
  PROVE  WaitOK'
<1>1. /\ overlapped' = overlapped
      /\ \A cl \in Clients : Len(log'[cl]) = Len(log[cl])
      /\ \A cl \in Clients : \A n \in DOMAIN log[cl] :
           log'[cl][n].decision = "pending" => log[cl][n].decision = "pending"
  BY ReceiveSettles
<1>. QED  BY <1>1, ReceiveGrown, OtherWait

LEMMA ApproveWait ==
  ASSUME IInv, WaitOK, NEW client \in Clients, NEW n \in DOMAIN log[client], UserApproves(client, n)
  PROVE  WaitOK'
<1>1. /\ Grown
      /\ \A cl \in Clients : Len(log'[cl]) = Len(log[cl])
      /\ \A cl \in Clients : \A m \in DOMAIN log[cl] : log'[cl][m].decision = log[cl][m].decision
  BY ApproveGrown
<1>2. overlapped' = overlapped
  BY DEF UserApproves
<1>. QED  BY <1>1, <1>2, OtherWait

LEMMA StepWait == IInv /\ WaitOK /\ [Next]_vars => WaitOK'
<1>. SUFFICES ASSUME IInv, WaitOK, [Next]_vars PROVE WaitOK'
  OBVIOUS
<1>1. CASE \E client \in Clients, c \in Calls : Send(client, c)
  BY <1>1, SendWait
<1>2. CASE \E r \in requests : ValidateAction(r)
  BY <1>2, ValidateWait
<1>3. CASE \E a \in answers : Receive(a)
  BY <1>3, ReceiveWait
<1>4. CASE \E client \in Clients : \E n \in DOMAIN log[client] : UserApproves(client, n)
  BY <1>4, ApproveWait
<1>5. CASE UNCHANGED vars
  BY <1>5 DEF vars, WaitOK
<1>. QED  BY <1>1, <1>2, <1>3, <1>4, <1>5 DEF Next
-----------------------------------------------------------------------------
(* What has room after a step had it before.                               *)
LEMMA RoomBefore ==
  ASSUME IInv, Grown, WaitOK', NEW cl \in Clients, Room(log', cl)
  PROVE  Room(log, cl)
<1>1. /\ Len(log[cl]) \in Nat /\ Len(log'[cl]) \in Nat /\ Len(log[cl]) <= Len(log'[cl])
      /\ IsFiniteSet(Asked(log', cl, Len(log'[cl])))
  BY DEF Grown, WaitOK
<1>2. Asked(log, cl, Len(log[cl])) \subseteq Asked(log', cl, Len(log'[cl]))
  BY <1>1, GrownKeeps, AskedParts
<1>. DEFINE old == Asked(log, cl, Len(log[cl]))
            new == Asked(log', cl, Len(log'[cl]))
<1>3. /\ Cardinality(old) \in Nat /\ Cardinality(new) \in Nat /\ Cardinality(old) <= Cardinality(new)
  <2>. HIDE DEF old, new
  <2>. QED  BY <1>1, <1>2, FS_Subset, FS_CardinalityType DEF old, new
<1>. QED  BY <1>3, ListLimitAssumption DEF Room

LEMMA SendKept ==
  ASSUME IInv, WaitOK, WaitOK', KeptOK, NEW client \in Clients, NEW c \in Calls, Send(client, c)
  PROVE  KeptOK'
<1>. DEFINE q == RequestOf(client, c)
            k == Len(log[client]) + 1
<1>1. /\ Len(log'[client]) = k
      /\ \A n \in 1..Len(log[client]) : log'[client][n] = log[client][n]
      /\ log'[client][k] = [call |-> c, decision |-> "pending", executed |-> FALSE]
      /\ \A other \in Clients \ {client} : log'[other] = log[other]
  BY SendStep
<1>2. Grown
  BY SendGrown
<1>3. /\ requests' = requests \cup {q} /\ context' = context /\ answers' = answers /\ kind' = kind
      /\ \A cl \in Clients : overlapped[cl] \subseteq overlapped'[cl]
  BY DEF Send, WaitOK
<1>4. q.client = client /\ q.session_context = context[client]
  BY DEF RequestOf
<1>. HIDE DEF q
<1>. SUFFICES ASSUME NEW cl \in Clients, kind[cl] \in {"loop", "parallel"}, Room(log', cl)
     PROVE  /\ \A a \in answers : a.client = cl => Asks(log', cl, a.n) \subseteq ToSet(a.context)
            /\ \A n \in DOMAIN log'[cl] \ overlapped'[cl] : log'[cl][n].decision # "pending" =>
                 /\ Asks(log', cl, n) \subseteq ToSet(context[cl])
                 /\ \A r \in requests' : r.client = cl => Asks(log', cl, n) \subseteq ToSet(r.session_context)
                 /\ \A a \in answers : a.client = cl => Asks(log', cl, n) \subseteq ToSet(a.context)
  BY <1>3 DEF KeptOK
<1>5. Room(log, cl)
  BY <1>2, RoomBefore
<1>6. /\ \A a \in answers : a.client = cl => Asks(log, cl, a.n) \subseteq ToSet(a.context)
      /\ \A n \in DOMAIN log[cl] \ overlapped[cl] : log[cl][n].decision # "pending" =>
           /\ Asks(log, cl, n) \subseteq ToSet(context[cl])
           /\ \A r \in requests : r.client = cl => Asks(log, cl, n) \subseteq ToSet(r.session_context)
           /\ \A a \in answers : a.client = cl => Asks(log, cl, n) \subseteq ToSet(a.context)
  BY <1>5 DEF KeptOK
<1>7. ASSUME NEW a \in answers, a.client = cl PROVE Asks(log', cl, a.n) \subseteq ToSet(a.context)
  <2>1. a.n \in DOMAIN log[cl]
    BY <1>7, OnTheWay
  <2>. QED  BY <1>2, <1>6, <1>7, <2>1, GrownKeeps
<1>8. ASSUME NEW n \in DOMAIN log'[cl] \ overlapped'[cl], log'[cl][n].decision # "pending"
      PROVE  /\ n \in DOMAIN log[cl] \ overlapped[cl] /\ log[cl][n].decision # "pending"
             /\ Asks(log', cl, n) = Asks(log, cl, n)
  <2>1. n \in DOMAIN log[cl] /\ log'[cl][n] = log[cl][n]
    BY <1>1, <1>2, <1>8 DEF Grown
  <2>. QED  BY <1>2, <1>3, <1>8, <2>1, GrownKeeps
<1>. QED  BY <1>3, <1>4, <1>6, <1>7, <1>8

LEMMA ValidateKept ==
  ASSUME IInv, OwnOK, WaitOK, KeptOK, NEW r \in requests, ValidateAction(r)
  PROVE  KeptOK'
<1>1. Carries(kind, log, r.client, r.n - 1, r.session_context)
  BY DEF OwnOK
<1>2. PICK a :
        /\ requests' = requests \ {r} /\ answers' = answers \cup {a}
        /\ a.client = r.client /\ a.n = r.n
        /\ Cardinality(ToSet(r.session_context) \cup Asks(log, r.client, r.n)) <= SESSION_LIST_LIMIT
             => ToSet(a.context) = ToSet(r.session_context) \cup Asks(log, r.client, r.n)
  BY <1>1, Answered
<1>3. kind' = kind /\ context' = context /\ log' = log /\ overlapped' = overlapped
  BY DEF ValidateAction
<1>4. ASSUME Room(log, r.client)
      PROVE  ToSet(a.context) = ToSet(r.session_context) \cup Asks(log, r.client, r.n)
  <2>. DEFINE all  == Asked(log, r.client, Len(log[r.client]))
              some == ToSet(r.session_context) \cup Asks(log, r.client, r.n)
  <2>1. /\ r.client \in Clients /\ Len(log[r.client]) \in Nat /\ r.n \in 1..Len(log[r.client])
    BY OnTheWay
  <2>2. /\ Asked(log, r.client, r.n - 1) \subseteq all /\ Asks(log, r.client, r.n) \subseteq all
    BY <2>1, AskedParts
  <2>3. some \subseteq all
    BY <1>1, <2>2 DEF Carries
  <2>4. IsFiniteSet(all) /\ Cardinality(all) <= SESSION_LIST_LIMIT
    BY <1>4, <2>1 DEF WaitOK, Room
  <2>5. Cardinality(some) <= SESSION_LIST_LIMIT
    <3>. HIDE DEF all, some
    <3>1. /\ IsFiniteSet(some) /\ Cardinality(some) <= Cardinality(all)
          /\ Cardinality(some) \in Nat /\ Cardinality(all) \in Nat
      BY <2>3, <2>4, FS_Subset, FS_CardinalityType
    <3>. QED  BY <2>4, <3>1, ListLimitAssumption
  <2>. QED  BY <1>2, <2>5
<1>. SUFFICES ASSUME NEW cl \in Clients, kind[cl] \in {"loop", "parallel"}, Room(log, cl)
     PROVE  /\ \A b \in answers' : b.client = cl => Asks(log, cl, b.n) \subseteq ToSet(b.context)
            /\ \A n \in DOMAIN log[cl] \ overlapped[cl] : log[cl][n].decision # "pending" =>
                 /\ Asks(log, cl, n) \subseteq ToSet(context[cl])
                 /\ \A q \in requests' : q.client = cl => Asks(log, cl, n) \subseteq ToSet(q.session_context)
                 /\ \A b \in answers' : b.client = cl => Asks(log, cl, n) \subseteq ToSet(b.context)
  BY <1>3 DEF KeptOK
<1>5. /\ \A b \in answers : b.client = cl => Asks(log, cl, b.n) \subseteq ToSet(b.context)
      /\ \A n \in DOMAIN log[cl] \ overlapped[cl] : log[cl][n].decision # "pending" =>
           /\ Asks(log, cl, n) \subseteq ToSet(context[cl])
           /\ \A q \in requests : q.client = cl => Asks(log, cl, n) \subseteq ToSet(q.session_context)
           /\ \A b \in answers : b.client = cl => Asks(log, cl, n) \subseteq ToSet(b.context)
  BY DEF KeptOK
<1>. QED  BY <1>2, <1>4, <1>5

LEMMA ReceiveKept ==
  ASSUME IInv, WaitOK, WaitOK', KeptOK, NEW a \in answers, Receive(a)
  PROVE  KeptOK'
<1>1. /\ overlapped' = overlapped
      /\ \A cl \in Clients : Len(log'[cl]) = Len(log[cl])
      /\ \A cl \in Clients : \A n \in DOMAIN log[cl] :
           ~(cl = a.client /\ n = a.n) => log'[cl][n] = log[cl][n]
  BY ReceiveSettles
<1>2. Grown
  BY ReceiveGrown
<1>3. /\ requests' = requests /\ answers' = answers \ {a} /\ kind' = kind
      /\ context' = [context EXCEPT ![a.client] = TakenOver(a.client, a)]
  BY DEF Receive
<1>4. /\ a.client \in Clients /\ a.n \in DOMAIN log[a.client]
      /\ log[a.client][a.n].decision = "pending"
      /\ DOMAIN context = Clients
  BY OnTheWay
<1>. SUFFICES ASSUME NEW cl \in Clients, kind[cl] \in {"loop", "parallel"}, Room(log', cl)
     PROVE  /\ \A b \in answers' : b.client = cl => Asks(log', cl, b.n) \subseteq ToSet(b.context)
            /\ \A n \in DOMAIN log'[cl] \ overlapped[cl] : log'[cl][n].decision # "pending" =>
                 /\ Asks(log', cl, n) \subseteq ToSet(context'[cl])
                 /\ \A r \in requests : r.client = cl => Asks(log', cl, n) \subseteq ToSet(r.session_context)
                 /\ \A b \in answers' : b.client = cl => Asks(log', cl, n) \subseteq ToSet(b.context)
  BY <1>1, <1>3 DEF KeptOK
<1>5. Room(log, cl)
  BY <1>2, RoomBefore
<1>6. /\ \A b \in answers : b.client = cl => Asks(log, cl, b.n) \subseteq ToSet(b.context)
      /\ \A n \in DOMAIN log[cl] \ overlapped[cl] : log[cl][n].decision # "pending" =>
           /\ Asks(log, cl, n) \subseteq ToSet(context[cl])
           /\ \A r \in requests : r.client = cl => Asks(log, cl, n) \subseteq ToSet(r.session_context)
           /\ \A b \in answers : b.client = cl => Asks(log, cl, n) \subseteq ToSet(b.context)
  BY <1>5 DEF KeptOK
<1>7. /\ DOMAIN log'[cl] = DOMAIN log[cl]
      /\ \A n \in DOMAIN log[cl] : Asks(log', cl, n) = Asks(log, cl, n)
  BY <1>1, <1>2, GrownKeeps DEF Grown
<1>8. context'[cl] = IF cl = a.client THEN a.context ELSE context[cl]
  BY <1>3, <1>4 DEF TakenOver
<1>9. ASSUME NEW b \in answers', b.client = cl PROVE Asks(log', cl, b.n) \subseteq ToSet(b.context)
  <2>1. b \in answers /\ b.n \in DOMAIN log[cl]
    BY <1>3, <1>9, OnTheWay
  <2>. QED  BY <1>6, <1>7, <1>9, <2>1
<1>10. ASSUME NEW n \in DOMAIN log[cl] \ overlapped[cl], log'[cl][n].decision # "pending"
       PROVE  /\ Asks(log, cl, n) \subseteq ToSet(context'[cl])
              /\ \A r \in requests : r.client = cl => Asks(log, cl, n) \subseteq ToSet(r.session_context)
              /\ \A b \in answers' : b.client = cl => Asks(log, cl, n) \subseteq ToSet(b.context)
  <2>1. CASE cl = a.client /\ n = a.n
    <3>1. \A m \in DOMAIN log[cl] : log[cl][m].decision = "pending" => m = n
      BY <1>4, <1>10, <2>1 DEF WaitOK
    <3>2. \A r \in requests : r.client # cl
      <4>. SUFFICES ASSUME NEW r \in requests, r.client = cl PROVE FALSE
        OBVIOUS
      <4>1. r.n = a.n
        BY <2>1, <3>1, OnTheWay
      <4>. QED  BY <2>1, <4>1 DEF IInv, WayOK
    <3>3. \A b \in answers' : b.client # cl
      <4>. SUFFICES ASSUME NEW b \in answers', b.client = cl PROVE FALSE
        OBVIOUS
      <4>1. b \in answers /\ b # a
        BY <1>3
      <4>2. b.n = a.n
        BY <2>1, <3>1, <4>1, OnTheWay
      <4>. QED  BY <2>1, <4>1, <4>2 DEF IInv, WayOK
    <3>. QED  BY <1>6, <1>8, <2>1, <3>2, <3>3
  <2>2. CASE ~(cl = a.client /\ n = a.n)
    <3>1. log[cl][n].decision # "pending"
      BY <1>1, <1>10, <2>2
    <3>. QED  BY <1>3, <1>6, <1>8, <1>10, <3>1
  <2>. QED  BY <2>1, <2>2
<1>. QED  BY <1>7, <1>9, <1>10

LEMMA ApproveKept ==
  ASSUME IInv, WaitOK', KeptOK, NEW client \in Clients, NEW n \in DOMAIN log[client],
         UserApproves(client, n)
  PROVE  KeptOK'
<1>1. /\ Grown
      /\ \A cl \in Clients : Len(log'[cl]) = Len(log[cl])
      /\ \A cl \in Clients : \A m \in DOMAIN log[cl] : log'[cl][m].decision = log[cl][m].decision
  BY ApproveGrown
<1>2. /\ requests' = requests /\ answers' = answers /\ context' = context /\ kind' = kind
      /\ overlapped' = overlapped
  BY DEF UserApproves
<1>. SUFFICES ASSUME NEW cl \in Clients, kind[cl] \in {"loop", "parallel"}, Room(log', cl)
     PROVE  /\ \A a \in answers : a.client = cl => Asks(log', cl, a.n) \subseteq ToSet(a.context)
            /\ \A m \in DOMAIN log'[cl] \ overlapped[cl] : log'[cl][m].decision # "pending" =>
                 /\ Asks(log', cl, m) \subseteq ToSet(context[cl])
                 /\ \A r \in requests : r.client = cl => Asks(log', cl, m) \subseteq ToSet(r.session_context)
                 /\ \A a \in answers : a.client = cl => Asks(log', cl, m) \subseteq ToSet(a.context)
  BY <1>2 DEF KeptOK
<1>3. Room(log, cl)
  BY <1>1, RoomBefore
<1>4. /\ DOMAIN log'[cl] = DOMAIN log[cl]
      /\ \A m \in DOMAIN log[cl] : Asks(log', cl, m) = Asks(log, cl, m)
  BY <1>1, GrownKeeps DEF Grown
<1>5. \A a \in answers : a.client = cl => a.n \in DOMAIN log[cl]
  BY OnTheWay
<1>. QED  BY <1>1, <1>3, <1>4, <1>5 DEF KeptOK

LEMMA StepKept == IInv /\ OwnOK /\ WaitOK /\ KeptOK /\ [Next]_vars => KeptOK'
<1>. SUFFICES ASSUME IInv, OwnOK, WaitOK, KeptOK, [Next]_vars PROVE KeptOK'
  OBVIOUS
<1>1. WaitOK'
  BY StepWait
<1>2. CASE \E client \in Clients, c \in Calls : Send(client, c)
  BY <1>1, <1>2, SendKept
<1>3. CASE \E r \in requests : ValidateAction(r)
  BY <1>3, ValidateKept
<1>4. CASE \E a \in answers : Receive(a)
  BY <1>1, <1>4, ReceiveKept
<1>5. CASE \E client \in Clients : \E n \in DOMAIN log[client] : UserApproves(client, n)
  BY <1>1, <1>5, ApproveKept
<1>6. CASE UNCHANGED vars
  BY <1>6 DEF vars, KeptOK
<1>. QED  BY <1>2, <1>3, <1>4, <1>5, <1>6 DEF Next

LEMMA InitKept == Init => KeptOK
<1>. SUFFICES ASSUME Init PROVE KeptOK
  OBVIOUS
<1>1. \A cl \in Clients : DOMAIN log[cl] = {}
  BY DEF Init
<1>. QED  BY <1>1 DEF Init, KeptOK

(* Whatever a parallel client has on the way beside, what a call of its    *)
(* asked for that had the way to itself is in all it passes later, while   *)
(* the list has room; a looping client, which never overlaps, keeps all.   *)
THEOREM AloneIsKept == Spec => []AloneNeverLost
<1>1. IInv /\ KeptOK => AloneNeverLost
  <2>. SUFFICES ASSUME IInv, KeptOK, NEW cl \in Clients, kind[cl] \in {"loop", "parallel"},
                       Cardinality(UNION { ToSet(log[cl][n].call.directed) : n \in DOMAIN log[cl] })
                         <= SESSION_LIST_LIMIT,
                       NEW n \in DOMAIN log[cl] \ (Outstanding(cl) \cup overlapped[cl]),
                       NEW ctx \in {context[cl]}
                                     \cup { r.session_context : r \in { q \in requests : q.client = cl } }
                                     \cup { a.context : a \in AnswersTo(cl) }
                PROVE  ToSet(log[cl][n].call.directed) \subseteq ToSet(ctx)
    BY DEF AloneNeverLost
  <2>1. Room(log, cl)
    <3>1. DOMAIN log[cl] = 1..Len(log[cl])
      BY OnTheWay
    <3>. QED  BY <3>1 DEF Room, Asked, Asks
  <2>2. n \in DOMAIN log[cl] \ overlapped[cl] /\ log[cl][n].decision # "pending"
    BY DEF Outstanding
  <2>. QED  BY <2>1, <2>2 DEF KeptOK, AnswersTo, Asks
<1>. QED  BY <1>1, InitOwn, StepOwn, InitWait, StepWait, InitKept, StepKept, AlwaysIInv, PTL DEF Spec
=============================================================================
