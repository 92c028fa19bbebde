----------------------------- MODULE DnslessProofs -----------------------------
(***************************************************************************)
(* Proofs about module Dnsless, for any clients, addresses and bounds.     *)
(***************************************************************************)
EXTENDS Dnsless, SequenceTheorems, TLAPS

-----------------------------------------------------------------------------
(***************************************************************************)
(* Connections.                                                            *)
(***************************************************************************)

\* A connection is a client and a number.
LEMMA ConnPair ==
  ASSUME NEW k \in Conn
  PROVE  k[1] \in Clients /\ k[2] \in 1..MaxConns /\ k = <<k[1], k[2]>>
BY DEF Conn

\* The connection a client is on is a connection, and that client holds it.
LEMMA CurrentConn ==
  ASSUME NEW c \in Clients, sock \in [Clients -> 0..MaxConns], sock[c] # 0
  PROVE  Current(c) \in Conn /\ Held(Current(c)) /\ Current(c)[1] = c
BY TcpAssumption DEF Conn, Current, Held

\* If the pair is a connection at all, the client is on it.
LEMMA CurrentHeld ==
  ASSUME NEW c \in Clients, Current(c) \in Conn
  PROVE  Held(Current(c)) /\ Current(c)[1] = c /\ sock[c] # 0
BY DEF Conn, Current, Held

\* A connection whose client end is open is the one its client is on.
LEMMA HeldCurrent ==
  ASSUME NEW k \in Conn, Held(k)
  PROVE  k = Current(k[1]) /\ sock[k[1]] # 0
BY ConnPair DEF Held, Current

-----------------------------------------------------------------------------
(***************************************************************************)
(* Types.                                                                  *)
(***************************************************************************)

\* The lines the server writes are lines.
LEMMA WrittenType ==
  ASSUME TypeOK, NEW k, spc \in {"announce", "announcing"} => announced # <<>>
  PROVE  Written(k) \in Nat /\ Written(k) <= Len(announced)
BY EmptySeq DEF TypeOK, ServerTypeOK, Written

\* What broadcast writes is a line.
LEMMA BroadcastType ==
  ASSUME TypeOK, ListOK
  PROVE  Broadcasting \in Line
<1>1. CASE spc = "announcing"
  <2>1. Len(announced) \in Nat /\ Len(announced) \in 1..Len(announced)
    BY <1>1 DEF TypeOK, ServerTypeOK, ListOK
  <2>2. announced[Len(announced)] \in IPs
    BY <2>1, ElementOfSeq DEF TypeOK, ServerTypeOK
  <2> QED BY <1>1, <2>1, <2>2 DEF Broadcasting, Line
<1>2. CASE spc # "announcing"
  <2>1. Len(announced) \in Nat BY DEF TypeOK, ServerTypeOK
  <2> QED BY <1>2, <2>1 DEF Broadcasting, Line
<1> QED BY <1>1, <1>2

\* What the types say about one client.
LEMMA ClientTypes ==
  ASSUME TypeOK, NEW c \in Clients
  PROVE  /\ hosts[c].ver \in Nat /\ msg[c].ver \in Nat
         /\ sock[c] \in 0..MaxConns
         /\ sock[c] # 0 =>
              /\ chan[Current(c)] \in Seq(Line)
              /\ Len(chan[Current(c)]) \in Nat
              /\ \A i \in 1..Len(chan[Current(c)]) :
                   chan[Current(c)][i] \in Line /\ chan[Current(c)][i].ver \in Nat
<1>1. hosts[c] \in Entry /\ msg[c] \in Line \cup {NoMessage} /\ sock[c] \in 0..MaxConns
  BY DEF TypeOK, ClientTypeOK, TcpTypeOK
<1>2. hosts[c].ver \in Nat /\ msg[c].ver \in Nat
  BY <1>1 DEF Entry, Line, NoMessage
<1>3. ASSUME sock[c] # 0
      PROVE  /\ chan[Current(c)] \in Seq(Line)
             /\ Len(chan[Current(c)]) \in Nat
             /\ \A i \in 1..Len(chan[Current(c)]) :
                  chan[Current(c)][i] \in Line /\ chan[Current(c)][i].ver \in Nat
  <2>1. Current(c) \in Conn
    BY <1>3, CurrentConn DEF TypeOK, TcpTypeOK
  <2>2. chan[Current(c)] \in Seq(Line)
    BY <2>1 DEF TypeOK, TcpTypeOK
  <2>3. \A i \in 1..Len(chan[Current(c)]) : chan[Current(c)][i] \in Line
    BY <2>2, ElementOfSeq
  <2> QED BY <2>2, <2>3, LenProperties DEF Line
<1> QED BY <1>1, <1>2, <1>3

-----------------------------------------------------------------------------
(***************************************************************************)
(* Steps that leave a client, its connection and the past announcements    *)
(* alone, and write nothing to its connection.                             *)
(***************************************************************************)
\* Then what the client has in hand, and can still read, stays in order.
LEMMA Frame ==
  ASSUME IInv, NEW c \in Clients,
         sock'[c] = sock[c], msg'[c] = msg[c], hosts'[c] = hosts[c],
         sock[c] # 0 => chan'[Current(c)] = chan[Current(c)],
         cpc'[c] = "apply" => cpc[c] = "apply",
         \A v \in DOMAIN announced : v \in DOMAIN announced' /\ announced'[v] = announced[v],
         Written(Current(c)) <= Written(Current(c))', Written(Current(c))' \in Nat
  PROVE  HostsOK(c)' /\ (sock'[c] # 0 => ChanOK(c)' /\ MsgOK(c)')
<1> DEFINE k == Current(c)
           W == Written(k)
           W1 == Written(Current(c))'
<1>1. Current(c)' = k
  BY DEF Current
<1>2. W \in Nat /\ W <= W1 /\ W1 \in Nat
  BY WrittenType DEF IInv, ListOK
<1>3. hosts[c].ver \in Nat /\ msg[c].ver \in Nat
  BY ClientTypes DEF IInv
<1>4. HostsOK(c)'
  <2>1. HostsOK(c) BY DEF IInv, ClientOK
  <2> HIDE DEF W, W1
  <2>2. hosts[c].ver <= W1
    BY <2>1, <1>2, <1>3 DEF HostsOK, W, k
  <2> QED BY <2>1, <2>2 DEF HostsOK, W1
<1>5. ASSUME NEW m, m.ver \in Nat, Truthful(m, k)
      PROVE  /\ m.ver <= W1
             /\ m.type = "ip_update" => (m.ver \in DOMAIN announced' /\ m.ip = announced'[m.ver])
  <2> HIDE DEF W, W1
  <2> QED BY <1>5, <1>2 DEF Truthful, W
<1>6. ASSUME sock[c] # 0 PROVE ChanOK(c)' /\ MsgOK(c)'
  <2>1. ChanOK(c) /\ MsgOK(c)
    BY <1>6 DEF IInv, ClientOK
  <2>2. \A i \in 1..Len(chan[k]) : chan[k][i].ver \in Nat
    BY <1>6, ClientTypes DEF IInv
  <2>3. \A i \in 1..Len(chan[k]) : Truthful(chan[k][i], k)
    BY <2>1 DEF ChanOK
  <2>4. (\A i \in 1..Len(chan[Current(c)]) : Truthful(chan[Current(c)][i], Current(c)))'
    BY <2>2, <2>3, <1>1, <1>5, <1>6 DEF Truthful
  <2>5. ChanOK(c)'
    BY <2>1, <2>4, <1>1, <1>6 DEF ChanOK, Later, Follows
  <2>6. ASSUME msg[c] # NoMessage PROVE Truthful(msg[c], Current(c))'
    BY <2>1, <1>1, <1>3, <1>5, <2>6 DEF MsgOK, Truthful
  <2>7. MsgOK(c)'
    BY <2>1, <2>6, <1>1, <1>6 DEF MsgOK, Later, Follows, NoMessage
  <2> QED BY <2>5, <2>7
<1> QED BY <1>4, <1>6

\* And the last line of its channel is still the newest it was sent.
LEMMA FrameTail ==
  ASSUME IInv, NEW c \in Clients,
         sock'[c] = sock[c], msg'[c] = msg[c],
         (Current(c) \in Registered' /\ stuck'[Current(c)] = 0) =>
            /\ Current(c) \in Registered /\ stuck[Current(c)] = 0
            /\ chan'[Current(c)] = chan[Current(c)]
            /\ Written(Current(c))' = Written(Current(c))
  PROVE  TailOK(c)'
<1>1. Current(c)' = Current(c)
  BY DEF Current
<1>2. TailOK(c)
  BY DEF IInv, ClientOK
<1> QED BY <1>1, <1>2 DEF TailOK

-----------------------------------------------------------------------------
(***************************************************************************)
(* What broadcast does to its two lists.                                   *)
(***************************************************************************)

\* Visiting the head of the list takes that connection, and no other, from it.
LEMMA RangeTail ==
  ASSUME NEW S, NEW s \in Seq(S), s # <<>>, IsInjective(s)
  PROVE  /\ Range(Tail(s)) = Range(s) \ {Head(s)}
         /\ Head(s) \in Range(s)
         /\ IsInjective(Tail(s))
<1>1. /\ Tail(s) \in Seq(S) /\ Len(Tail(s)) = Len(s) - 1
      /\ \A i \in 1..Len(Tail(s)) : Tail(s)[i] = s[i+1]
      /\ Head(s) = s[1] /\ Len(s) \in Nat /\ Len(s) >= 1
  BY HeadTailProperties, EmptySeq, LenProperties
<1>2. DOMAIN s = 1..Len(s) /\ DOMAIN Tail(s) = 1..Len(Tail(s))
  BY <1>1, LenProperties
<1>3. \A i, j \in DOMAIN s : s[i] = s[j] => i = j
  BY DEF IsInjective
<1>4. Head(s) \in Range(s)
  BY <1>1, <1>2 DEF Range
<1>5. IsInjective(Tail(s))
  BY <1>1, <1>2, <1>3 DEF IsInjective
<1>6. ASSUME NEW x \in Range(Tail(s)) PROVE x \in Range(s) \ {Head(s)}
  <2>1. PICK i \in 1..Len(Tail(s)) : x = s[i+1]
    BY <1>1, <1>2, <1>6 DEF Range
  <2>2. i + 1 \in DOMAIN s /\ 1 \in DOMAIN s /\ i + 1 # 1
    BY <1>1, <1>2
  <2> QED BY <1>1, <1>3, <2>1, <2>2 DEF Range
<1>7. ASSUME NEW x \in Range(s) \ {Head(s)} PROVE x \in Range(Tail(s))
  <2>1. PICK i \in 1..Len(s) : x = s[i]
    BY <1>2, <1>7 DEF Range
  <2>2. i - 1 \in 1..Len(Tail(s)) /\ Tail(s)[i - 1] = x
    BY <1>1, <1>7, <2>1
  <2> QED BY <1>2, <2>2 DEF Range
<1> QED BY <1>4, <1>5, <1>6, <1>7

\* A connection put at the end of a list is then on it, once.
LEMMA RangeAppend ==
  ASSUME NEW S, NEW s \in Seq(S), NEW e \in S
  PROVE  /\ Range(Append(s, e)) = Range(s) \cup {e}
         /\ (IsInjective(s) /\ e \notin Range(s)) => IsInjective(Append(s, e))
<1>1. /\ Len(Append(s, e)) = Len(s) + 1 /\ Len(s) \in Nat
      /\ \A i \in 1..Len(s) : Append(s, e)[i] = s[i]
      /\ Append(s, e)[Len(s) + 1] = e
      /\ DOMAIN s = 1..Len(s) /\ DOMAIN Append(s, e) = 1..Len(s) + 1
  BY AppendProperties, LenProperties
<1>2. Range(Append(s, e)) = Range(s) \cup {e}
  BY <1>1 DEF Range
<1>3. ASSUME IsInjective(s), e \notin Range(s) PROVE IsInjective(Append(s, e))
  <2>1. \A i \in 1..Len(s) : s[i] # e
    BY <1>1, <1>3 DEF Range
  <2> QED BY <1>1, <1>3, <2>1 DEF IsInjective
<1> QED BY <1>2, <1>3

-----------------------------------------------------------------------------
(***************************************************************************)
(* The server's main thread.                                               *)
(***************************************************************************)

\* A changed address (lib.rs:167-182): every registered connection is owed it.
LEMMA DetectChangedInv ==
  ASSUME IInv, DetectChanged, UNCHANGED clientVars
  PROVE  IInv'
<1> USE DEF DetectChanged, tcpVars, clientVars
<1>1. TypeOK'
  BY AppendProperties DEF IInv, TypeOK, TcpTypeOK, ServerTypeOK, ServerPC, ClientTypeOK
<1>2. ListOK'
  <2>1. announced' # <<>>
    BY AppendProperties DEF IInv, TypeOK, ServerTypeOK
  <2> QED BY <2>1 DEF IInv, ListOK, Registered
<1>3. EndsOK'
  BY DEF IInv, EndsOK, ConnOK, Held, Registered
<1>4. /\ Len(announced') = Len(announced) + 1
      /\ Len(announced) \in Nat
      /\ \A v \in DOMAIN announced : v \in DOMAIN announced' /\ announced'[v] = announced[v]
  BY AppendProperties, LenProperties DEF IInv, TypeOK, ServerTypeOK
<1>5. ASSUME NEW c \in Clients PROVE ClientOK(c)'
  <2>1. Written(Current(c))' = Written(Current(c)) /\ Written(Current(c)) \in Nat
    BY <1>4 DEF Written
  <2>2. HostsOK(c)' /\ (sock'[c] # 0 => ChanOK(c)' /\ MsgOK(c)')
    BY <1>4, <2>1, Frame
  <2>3. TailOK(c)'
    BY <2>1, FrameTail DEF Registered
  <2> QED BY <2>2, <2>3 DEF ClientOK
<1> QED BY <1>1, <1>2, <1>3, <1>5 DEF IInv

\* An unchanged address, or none (lib.rs:191-200), changes no line.
LEMMA DetectNothingInv ==
  ASSUME IInv, DetectNothing, UNCHANGED clientVars
  PROVE  IInv'
<1> USE DEF DetectNothing, tcpVars, clientVars
<1>1. TypeOK'
  BY DEF IInv, TypeOK, TcpTypeOK, ServerTypeOK, ServerPC, ClientTypeOK
<1>2. ListOK'
  BY DEF IInv, ListOK, Registered
<1>3. EndsOK'
  BY DEF IInv, EndsOK, ConnOK, Held, Registered
<1>4. ASSUME NEW c \in Clients PROVE ClientOK(c)'
  <2>1. Written(Current(c))' = Written(Current(c)) /\ Written(Current(c)) \in Nat
    BY WrittenType DEF IInv, ListOK, Written
  <2>2. HostsOK(c)' /\ (sock'[c] # 0 => ChanOK(c)' /\ MsgOK(c)')
    BY <2>1, Frame
  <2>3. TailOK(c)'
    BY <2>1, FrameTail DEF Registered
  <2> QED BY <2>2, <2>3 DEF ClientOK
<1> QED BY <1>1, <1>2, <1>3, <1>4 DEF IInv

\* Entering broadcast, a registered connection is still owed the announcement.
LEMMA StartBroadcastInv ==
  ASSUME IInv, StartBroadcast, UNCHANGED clientVars
  PROVE  IInv'
<1> USE DEF StartBroadcast, tcpVars, clientVars
<1>1. TypeOK'
  BY EmptySeq DEF IInv, TypeOK, TcpTypeOK, ServerTypeOK, ServerPC, ClientTypeOK
<1>2. todo = <<>> /\ Range(<<>>) = {}
  BY DEF IInv, ListOK, Range
<1>3. Registered' = Registered
  BY <1>2 DEF Registered
<1>4. ListOK'
  BY <1>2, <1>3 DEF IInv, ListOK, IsInjective
<1>5. EndsOK'
  BY <1>3 DEF IInv, EndsOK, ConnOK, Held
<1>6. ASSUME NEW c \in Clients PROVE ClientOK(c)'
  <2>1. /\ Written(Current(c)) <= Written(Current(c))'
        /\ Written(Current(c))' \in Nat
        /\ Current(c) \in Registered => Written(Current(c))' = Written(Current(c))
    <3>1. Current(c)' = Current(c) /\ Len(announced) \in Nat
      BY DEF Current, IInv, TypeOK, ServerTypeOK
    <3>2. spc = "announce" => Len(announced) - 1 \in Nat
      BY EmptySeq DEF IInv, ListOK, TypeOK, ServerTypeOK
    <3> QED BY <1>2, <3>1, <3>2 DEF Written, Registered
  <2>2. HostsOK(c)' /\ (sock'[c] # 0 => ChanOK(c)' /\ MsgOK(c)')
    BY <2>1, Frame
  <2>3. TailOK(c)'
    BY <1>3, <2>1, FrameTail
  <2> QED BY <2>2, <2>3 DEF ClientOK
<1> QED BY <1>1, <1>4, <1>5, <1>6 DEF IInv

\* When broadcast returns, no registered connection is owed anything.
LEMMA EndBroadcastInv ==
  ASSUME IInv, EndBroadcast, UNCHANGED clientVars
  PROVE  IInv'
<1> USE DEF EndBroadcast, tcpVars, clientVars
<1>1. TypeOK'
  BY DEF IInv, TypeOK, TcpTypeOK, ServerTypeOK, ServerPC, ClientTypeOK
<1>2. ListOK'
  BY DEF IInv, ListOK, Registered
<1>3. EndsOK'
  BY DEF IInv, EndsOK, ConnOK, Held, Registered
<1>4. ASSUME NEW c \in Clients PROVE ClientOK(c)'
  <2>1. Written(Current(c))' = Written(Current(c)) /\ Written(Current(c)) \in Nat
    BY WrittenType DEF IInv, ListOK, Written, Range
  <2>2. HostsOK(c)' /\ (sock'[c] # 0 => ChanOK(c)' /\ MsgOK(c)')
    BY <2>1, Frame
  <2>3. TailOK(c)'
    BY <2>1, FrameTail DEF Registered
  <2> QED BY <2>2, <2>3 DEF ClientOK
<1> QED BY <1>1, <1>2, <1>3, <1>4 DEF IInv

\* The line being broadcast is what the next connection is to hear.
LEMMA BroadcastFacts ==
  ASSUME IInv, todo # <<>>
  PROVE  /\ Broadcasting \in Line /\ Broadcasting.ver = Len(announced)
         /\ Len(announced) \in Nat
         /\ \/ /\ Broadcasting.type = "ip_update"
               /\ Written(Head(todo)) = Len(announced) - 1
               /\ Len(announced) \in DOMAIN announced
               /\ Broadcasting.ip = announced[Len(announced)]
            \/ /\ Broadcasting.type = "heartbeat"
               /\ Written(Head(todo)) = Len(announced)
<1>1. spc \in {"announcing", "beating"} /\ Head(todo) \in Range(todo)
  BY RangeTail DEF IInv, ListOK, TypeOK, ServerTypeOK
<1>2. Broadcasting \in Line
  BY BroadcastType DEF IInv
<1>3. Len(announced) \in Nat /\ DOMAIN announced = 1..Len(announced)
  BY LenProperties DEF IInv, TypeOK, ServerTypeOK
<1>4. spc = "announcing" => Len(announced) >= 1
  BY EmptySeq, <1>3 DEF IInv, ListOK, TypeOK, ServerTypeOK
<1>5. CASE spc = "announcing"
  <2>1. Broadcasting = [type |-> "ip_update", ip |-> announced[Len(announced)], ver |-> Len(announced)]
    BY <1>5 DEF Broadcasting
  <2>2. Written(Head(todo)) = Len(announced) - 1
    BY <1>1, <1>5 DEF Written
  <2> QED BY <1>2, <1>3, <1>4, <1>5, <2>1, <2>2
<1>6. CASE spc = "beating"
  <2>1. Broadcasting = [type |-> "heartbeat", ip |-> NoIp, ver |-> Len(announced)]
    BY <1>6 DEF Broadcasting
  <2>2. Written(Head(todo)) = Len(announced)
    BY <1>6 DEF Written
  <2> QED BY <1>2, <1>3, <2>1, <2>2
<1> QED BY <1>1, <1>5, <1>6

\* Taking k from the one list and, if it is kept, adding it to the other.
LEMMA TakeFacts ==
  ASSUME IInv, todo # <<>>
  PROVE  /\ Head(todo) \in Conn /\ Head(todo) \in Registered
         /\ Head(todo) \in serverEnd /\ Head(todo) \notin Range(clients)
         /\ Range(Tail(todo)) = Range(todo) \ {Head(todo)}
         /\ IsInjective(Tail(todo)) /\ Tail(todo) \in Seq(Conn)
         /\ Range(Append(clients, Head(todo))) = Range(clients) \cup {Head(todo)}
         /\ IsInjective(Append(clients, Head(todo)))
         /\ Append(clients, Head(todo)) \in Seq(Conn)
<1>1. clients \in Seq(Conn) /\ todo \in Seq(Conn)
  BY DEF IInv, TypeOK, ServerTypeOK
<1>2. Head(todo) \in Conn /\ Tail(todo) \in Seq(Conn)
  BY <1>1, HeadTailProperties
<1>3. /\ Head(todo) \in Range(todo)
      /\ Range(Tail(todo)) = Range(todo) \ {Head(todo)} /\ IsInjective(Tail(todo))
  BY <1>1, RangeTail DEF IInv, ListOK
<1>4. Head(todo) \notin Range(clients)
  BY <1>3 DEF IInv, ListOK
<1>5. /\ Range(Append(clients, Head(todo))) = Range(clients) \cup {Head(todo)}
      /\ IsInjective(Append(clients, Head(todo)))
      /\ Append(clients, Head(todo)) \in Seq(Conn)
  BY <1>1, <1>2, <1>4, RangeAppend, AppendProperties DEF IInv, ListOK
<1> QED BY <1>2, <1>3, <1>4, <1>5 DEF IInv, ListOK, Registered

\* Being taken from todo, k has been written to; nothing else changes.
LEMMA TakeWritten ==
  ASSUME IInv, todo # <<>>, NEW k, k = Head(todo),
         todo' = Tail(todo), UNCHANGED <<announced, spc, sock>>
  PROVE  /\ Written(k)' = Len(announced)
         /\ \A c \in Clients : /\ Written(Current(c)) <= Written(Current(c))'
                               /\ Written(Current(c))' \in Nat
                               /\ Current(c) # k => Written(Current(c))' = Written(Current(c))
<1>1. spc \in {"announcing", "beating"} /\ Range(todo') = Range(todo) \ {k}
  BY TakeFacts DEF IInv, ListOK
<1>2. \A c \in Clients : Written(Current(c)) \in Nat
  BY WrittenType DEF IInv, ListOK
<1>3. Len(announced) \in Nat
  BY LenProperties DEF IInv, TypeOK, ServerTypeOK
<1>4. ASSUME NEW c \in Clients
      PROVE /\ Written(Current(c)) <= Written(Current(c))'
            /\ Written(Current(c))' \in Nat
            /\ Current(c) # k => Written(Current(c))' = Written(Current(c))
  <2>1. Current(c)' = Current(c)
    BY DEF Current
  <2> QED BY <1>1, <1>2, <1>3, <2>1 DEF Written
<1>5. Written(k)' = Len(announced)
  BY <1>1 DEF Written
<1> QED BY <1>4, <1>5

\* A line reaches the channel of client d's connection k.
LEMMA LineAppended ==
  ASSUME IInv, NEW k \in Conn, NEW b \in Line, NEW d \in Clients,
         k = Current(d), sock[d] # 0, k \in Registered, stuck[k] = 0,
         chan' = [chan EXCEPT ![k] = Append(@, b)],
         UNCHANGED <<clientVars, sock, announced>>,
         b.ver = IF b.type = "ip_update" THEN Written(k) + 1 ELSE Written(k),
         Truthful(b, k)', Written(k) <= Written(k)', Written(k)' \in Nat,
         (k \in Registered' /\ stuck'[k] = 0) => Written(k)' = b.ver
  PROVE  ClientOK(d)'
<1> DEFINE s == chan[k]
<1> USE DEF clientVars
<1>1. Current(d)' = k
  BY DEF Current
<1>2. chan'[k] = Append(s, b)
  BY DEF IInv, TypeOK, TcpTypeOK
<1>3. /\ s \in Seq(Line) /\ Len(s) \in Nat /\ msg[d].ver \in Nat /\ hosts[d].ver \in Nat
      /\ \A i \in 1..Len(s) : s[i] \in Line /\ s[i].ver \in Nat
      /\ Written(k) \in Nat
  BY ClientTypes, WrittenType DEF IInv, ListOK
<1>4. /\ Len(chan'[k]) = Len(s) + 1 /\ chan'[k][Len(s) + 1] = b
      /\ \A i \in 1..Len(s) : chan'[k][i] = s[i]
      /\ chan'[k] # <<>>
  BY <1>2, <1>3, AppendProperties
<1> HIDE DEF s
<1>5. HostsOK(d) /\ TailOK(d) /\ ChanOK(d) /\ MsgOK(d)
  BY DEF IInv, ClientOK
<1>6. HostsOK(d)'
  BY <1>1, <1>3, <1>5 DEF HostsOK
<1>7. TailOK(d)'
  BY <1>1, <1>3, <1>4 DEF TailOK
<1>8. \A i \in 1..Len(s) : Truthful(s[i], k) /\ s[i].ver <= Written(k) /\ Later(s[i], b)
  BY <1>3, <1>5 DEF ChanOK, Truthful, Later, s
<1>9. ChanOK(d)'
  <2>1. ASSUME NEW i \in 1..Len(chan'[k]) PROVE Truthful(chan[k][i], k)'
    <3>1. CASE i \in 1..Len(s)
      BY <1>3, <1>4, <1>8, <3>1 DEF Truthful
    <3>2. CASE i = Len(s) + 1
      BY <1>4, <3>2
    <3> QED BY <1>3, <1>4, <3>1, <3>2
  <2>2. \A i \in 1..Len(chan'[k]) : chan'[k][i].type = "ip_update" => chan'[k][i].ver > hosts[d].ver
    BY <1>3, <1>4, <1>5 DEF ChanOK, HostsOK, s
  <2>3. \A i, j \in 1..Len(chan'[k]) : i < j => Later(chan'[k][i], chan'[k][j])
    BY <1>3, <1>4, <1>5, <1>8 DEF ChanOK, s
  <2>4. \A i \in 1..Len(chan'[k]) - 1 : Follows(chan'[k][i], chan'[k][i + 1])
    <3>1. s # <<>> => s[Len(s)].ver = Written(k)
      BY <1>5 DEF TailOK, s
    <3>2. ASSUME NEW i \in 1..Len(s), i = Len(s) PROVE Follows(s[i], b)
      BY <1>3, <3>1, <3>2, EmptySeq DEF Follows
    <3>3. \A i \in 1..Len(s) - 1 : Follows(s[i], s[i + 1])
      BY <1>5 DEF ChanOK, s
    <3>4. ASSUME NEW i \in 1..Len(chan'[k]) - 1
          PROVE  Follows(chan'[k][i], chan'[k][i + 1])
      <4>1. CASE i = Len(s)
        BY <1>3, <1>4, <3>2, <4>1
      <4>2. CASE i # Len(s)
        <5>1. i \in 1..Len(s) - 1 /\ i \in 1..Len(s) /\ i + 1 \in 1..Len(s)
          BY <1>3, <1>4, <4>2
        <5> QED BY <1>4, <3>3, <5>1
      <4> QED BY <4>1, <4>2
    <3> QED BY <3>4
  <2> QED BY <1>1, <2>1, <2>2, <2>3, <2>4 DEF ChanOK
<1>10. MsgOK(d)'
  <2> SUFFICES ASSUME msg[d] # NoMessage PROVE MsgOK(d)'
    BY DEF MsgOK, NoMessage
  <2>1. Truthful(msg[d], k) /\ msg[d].ver <= Written(k) /\ Later(msg[d], b)
    BY <1>3, <1>5 DEF MsgOK, Truthful, Later
  <2>2. Truthful(msg[d], k)'
    BY <1>3, <2>1 DEF Truthful
  <2>3. \A i \in 1..Len(chan'[k]) : Later(msg[d], chan'[k][i])
    BY <1>3, <1>4, <1>5, <2>1 DEF MsgOK, s
  <2>4. Follows(msg[d], chan'[k][1])
    <3>1. CASE s = <<>>
      <4>1. msg[d].ver = Written(k)
        BY <1>5, <3>1 DEF TailOK, s
      <4> QED BY <1>3, <1>4, <3>1, <4>1, EmptySeq DEF Follows
    <3>2. CASE s # <<>>
      BY <1>3, <1>4, <1>5, <3>2, EmptySeq DEF MsgOK, s
    <3> QED BY <3>1, <3>2
  <2> QED BY <1>1, <2>2, <2>3, <2>4 DEF MsgOK, Later, Follows
<1> QED BY <1>6, <1>7, <1>9, <1>10 DEF ClientOK

\* A line that is written reaches a client that has missed none, or is lost.
LEMMA SendLineInv ==
  ASSUME IInv, SendLine, UNCHANGED clientVars
  PROVE  IInv'
<1> USE DEF clientVars
<1>0. todo # <<>>
  BY DEF SendLine
<1>1. PICK k : k = Head(todo)
  OBVIOUS
<1>2. PICK b : b = Broadcasting
  OBVIOUS
<1>3. /\ k \in Conn /\ k \in Registered /\ k \in serverEnd /\ k \notin Range(clients)
      /\ Range(clients') = Range(clients) \cup {k} /\ IsInjective(clients')
      /\ Range(todo') = Range(todo) \ {k} /\ IsInjective(todo')
      /\ clients' \in Seq(Conn) /\ todo' \in Seq(Conn)
  BY <1>0, <1>1, TakeFacts DEF SendLine
<1>4. Registered' = Registered
  BY <1>0, <1>1, <1>3, RangeTail DEF Registered, IInv, ListOK, TypeOK, ServerTypeOK
<1>5. /\ b \in Line /\ b.ver = Len(announced) /\ Len(announced) \in Nat
      /\ \/ /\ b.type = "ip_update" /\ Written(k) = Len(announced) - 1
            /\ Len(announced) \in DOMAIN announced /\ b.ip = announced[Len(announced)]
         \/ b.type = "heartbeat" /\ Written(k) = Len(announced)
  BY <1>0, <1>1, <1>2, BroadcastFacts
<1>6. /\ Written(k)' = Len(announced)
      /\ \A c \in Clients : /\ Written(Current(c)) <= Written(Current(c))'
                            /\ Written(Current(c))' \in Nat
                            /\ Current(c) # k => Written(Current(c))' = Written(Current(c))
  BY <1>0, <1>1, TakeWritten DEF SendLine
<1>7. /\ k \notin reset
      /\ IF Held(k) /\ k \notin cut
         THEN chan' = [chan EXCEPT ![k] = Append(@, b)] /\ UNCHANGED stuck
         ELSE stuck' = [stuck EXCEPT ![k] = @ + 1] /\ UNCHANGED chan
  BY <1>1, <1>2 DEF SendLine, Write
<1>8. chan \in [Conn -> Seq(Line)] /\ stuck \in [Conn -> Nat]
  BY DEF IInv, TypeOK, TcpTypeOK
<1>9. TypeOK'
  <2>1. chan' \in [Conn -> Seq(Line)] /\ stuck' \in [Conn -> Nat]
    <3>1. Append(chan[k], b) \in Seq(Line) /\ stuck[k] + 1 \in Nat
      BY <1>3, <1>5, <1>8, AppendProperties
    <3> QED BY <1>3, <1>7, <1>8, <3>1
  <2> QED BY <1>3, <2>1 DEF SendLine, IInv, TypeOK, TcpTypeOK, ServerTypeOK, ClientTypeOK
<1>10. ListOK'
  <2>1. spc' \in {"announcing", "beating"} /\ announced' = announced
    BY <1>0 DEF SendLine, IInv, ListOK
  <2> QED BY <1>3, <1>4, <2>1 DEF SendLine, IInv, ListOK
<1>11. EndsOK'
  <2>1. /\ serverEnd' = serverEnd /\ sock' = sock /\ cut' = cut /\ UNCHANGED <<cpc, msg>>
        /\ \A j \in Conn : j # k => chan'[j] = chan[j] /\ stuck'[j] = stuck[j]
        /\ IF Held(k) /\ k \notin cut THEN stuck'[k] = stuck[k] ELSE chan'[k] = chan[k]
    BY <1>7, <1>8 DEF SendLine
  <2>2. ASSUME NEW j \in Conn PROVE ConnOK(j)'
    <3>1. ConnOK(j)
      BY DEF IInv, EndsOK
    <3>2. CASE j # k
      BY <1>4, <2>1, <3>1, <3>2 DEF ConnOK, Held
    <3>3. CASE j = k
      BY <1>3, <1>4, <2>1, <3>1, <3>3 DEF ConnOK, Held
    <3> QED BY <3>2, <3>3
  <2> QED BY <2>1, <2>2 DEF IInv, EndsOK
<1>12. ASSUME NEW c \in Clients PROVE ClientOK(c)'
  <2>1. CASE Current(c) # k
    <3>1. chan'[Current(c)] = chan[Current(c)] \/ sock[c] = 0
      BY <1>7, <1>8, <2>1, CurrentConn DEF IInv, TypeOK, TcpTypeOK
    <3>2. HostsOK(c)' /\ (sock'[c] # 0 => ChanOK(c)' /\ MsgOK(c)')
      BY <1>6, <3>1, Frame DEF SendLine
    <3>3. TailOK(c)'
      <4>1. Current(c) \in Registered => Current(c) \in Conn
        BY RangeOfSeq DEF Registered, IInv, TypeOK, ServerTypeOK
      <4>2. Current(c) \in Registered =>
              stuck'[Current(c)] = stuck[Current(c)] /\ chan'[Current(c)] = chan[Current(c)]
        BY <1>7, <1>8, <2>1, <4>1
      <4> QED BY <1>4, <1>6, <2>1, <4>2, FrameTail DEF SendLine
    <3> QED BY <3>2, <3>3 DEF ClientOK
  <2>2. CASE Current(c) = k /\ Held(k) /\ k \notin cut
    <3>1. sock[c] # 0 /\ stuck[k] = 0
      BY <1>3, <2>2, HeldCurrent DEF IInv, EndsOK, ConnOK, Current
    <3>2. b.ver = IF b.type = "ip_update" THEN Written(k) + 1 ELSE Written(k)
      BY <1>5
    <3>3. Truthful(b, k)'
      BY <1>5, <1>6 DEF Truthful, SendLine
    <3>4. Written(k) <= Written(k)' /\ Written(k)' \in Nat /\ Written(k)' = b.ver
      BY <1>5, <1>6
    <3>5. chan' = [chan EXCEPT ![k] = Append(@, b)]
      BY <1>7, <2>2
    <3>6. UNCHANGED <<clientVars, sock, announced>>
      BY DEF SendLine
    <3> QED BY <1>3, <1>5, <2>2, <3>1, <3>2, <3>3, <3>4, <3>5, <3>6, LineAppended
  <2>3. CASE Current(c) = k /\ ~(Held(k) /\ k \notin cut)
    <3>1. chan' = chan /\ stuck'[k] # 0
      BY <1>3, <1>7, <1>8, <2>3
    <3>2. HostsOK(c)' /\ (sock'[c] # 0 => ChanOK(c)' /\ MsgOK(c)')
      BY <1>6, <3>1, Frame DEF SendLine
    <3>3. TailOK(c)'
      BY <2>3, <3>1, FrameTail DEF SendLine
    <3> QED BY <3>2, <3>3 DEF ClientOK
  <2> QED BY <2>1, <2>2, <2>3
<1> QED BY <1>9, <1>10, <1>11, <1>12 DEF IInv

\* A connection that is dropped leaves the list and nothing else of its client.
LEMMA DropInv ==
  ASSUME IInv, Drop, UNCHANGED clientVars
  PROVE  IInv'
<1> USE DEF clientVars
<1>1. todo # <<>>
  BY DEF Drop
<1>2. PICK k : k = Head(todo)
  OBVIOUS
<1>3. /\ k \in Conn /\ k \in Registered /\ k \in serverEnd /\ k \notin Range(clients)
      /\ Range(todo') = Range(todo) \ {k} /\ IsInjective(todo') /\ todo' \in Seq(Conn)
  BY <1>1, <1>2, TakeFacts DEF Drop
<1>4. Registered' = Registered \ {k}
  BY <1>3 DEF Registered, Drop
<1>5. /\ serverEnd' = serverEnd \ {k} /\ reset' = reset \ {k}
      /\ stuck' = [j \in Conn |-> IF j \in {k} THEN 0 ELSE stuck[j]]
  BY <1>2 DEF Drop, CloseServer
<1>6. \A c \in Clients :
        /\ Written(Current(c)) <= Written(Current(c))'
        /\ Written(Current(c))' \in Nat
        /\ Current(c) # k => Written(Current(c))' = Written(Current(c))
  BY <1>1, <1>2, TakeWritten DEF Drop
<1>7. /\ sock' = sock /\ chan' = chan /\ announced' = announced
      /\ msg' = msg /\ hosts' = hosts /\ cpc' = cpc
  BY DEF Drop
<1>8. TypeOK'
  BY <1>3, <1>5 DEF Drop, IInv, TypeOK, TcpTypeOK, ServerTypeOK, ClientTypeOK
<1>9. ListOK'
  <2>1. spc' \in {"announcing", "beating"} /\ announced' = announced
    BY <1>1 DEF Drop, IInv, ListOK
  <2> QED BY <1>3, <1>4, <1>5, <2>1 DEF Drop, IInv, ListOK
<1>10. EndsOK'
  BY <1>3, <1>4, <1>5 DEF Drop, IInv, EndsOK, ConnOK, Held
<1>11. ASSUME NEW c \in Clients PROVE ClientOK(c)'
  <2>1. HostsOK(c)' /\ (sock'[c] # 0 => ChanOK(c)' /\ MsgOK(c)')
    BY <1>6, <1>7, Frame
  <2>2. TailOK(c)'
    <3>1. Current(c) \in Registered => Current(c) \in Conn
      BY RangeOfSeq DEF Registered, IInv, TypeOK, ServerTypeOK
    <3>2. Current(c) \in Registered' =>
            /\ Current(c) \in Registered /\ Current(c) # k
            /\ stuck'[Current(c)] = stuck[Current(c)]
      BY <1>4, <1>5, <3>1
    <3> QED BY <1>6, <1>7, <3>2, FrameTail
  <2> QED BY <2>1, <2>2 DEF ClientOK
<1> QED BY <1>8, <1>9, <1>10, <1>11 DEF IInv

-----------------------------------------------------------------------------
(***************************************************************************)
(* The accept thread.                                                      *)
(***************************************************************************)

\* A registered connection is a connection.
LEMMA RegisteredConn ==
  ASSUME TypeOK
  PROVE  Registered \subseteq Conn
BY RangeOfSeq DEF Registered, TypeOK, ServerTypeOK

\* A registered connection (lib.rs:91-94) has carried nothing yet.
LEMMA RegisterInv ==
  ASSUME IInv, NEW k \in Conn, Register(k), UNCHANGED clientVars
  PROVE  IInv'
<1> USE DEF tcpVars, clientVars
<1>1. /\ k \in serverEnd /\ k \notin Registered /\ clients' = Append(clients, k)
      /\ UNCHANGED <<tcpVars, nic, lastIp, announced, spc, todo>>
  BY DEF Register
<1>2. /\ Range(clients') = Range(clients) \cup {k} /\ IsInjective(clients')
      /\ clients' \in Seq(Conn)
  BY <1>1, RangeAppend, AppendProperties
     DEF IInv, ListOK, TypeOK, ServerTypeOK, Registered
<1>3. Registered' = Registered \cup {k}
  BY <1>1, <1>2 DEF Registered
<1>4. TypeOK'
  BY <1>1, <1>2 DEF IInv, TypeOK, TcpTypeOK, ServerTypeOK, ClientTypeOK
<1>5. ListOK'
  BY <1>1, <1>2, <1>3 DEF IInv, ListOK, Registered
<1>6. EndsOK'
  BY <1>1, <1>3 DEF IInv, EndsOK, ConnOK, Held
<1>7. ASSUME NEW c \in Clients PROVE ClientOK(c)'
  <2>1. Written(Current(c))' = Written(Current(c)) /\ Written(Current(c)) \in Nat
    BY <1>1, WrittenType DEF IInv, ListOK, Written, Current
  <2>2. HostsOK(c)' /\ (sock'[c] # 0 => ChanOK(c)' /\ MsgOK(c)')
    BY <1>1, <2>1, Frame
  <2>3. CASE Current(c) # k
    BY <1>1, <1>3, <2>1, <2>2, <2>3, FrameTail DEF ClientOK
  <2>4. CASE Current(c) = k
    <3>1. Held(k) /\ k[1] = c
      BY <2>4, CurrentHeld
    <3>2. chan[k] = <<>> /\ msg[c] = NoMessage
      BY <1>1, <3>1 DEF IInv, EndsOK, ConnOK
    <3>3. TailOK(c)'
      BY <1>1, <2>4, <3>2 DEF TailOK, Current, NoMessage
    <3> QED BY <2>2, <3>3 DEF ClientOK
  <2> QED BY <2>3, <2>4
<1> QED BY <1>4, <1>5, <1>6, <1>7 DEF IInv

\* Nor has one that is refused (lib.rs:84-90).
LEMMA RejectCloneInv ==
  ASSUME IInv, NEW k \in Conn, RejectClone(k), UNCHANGED clientVars
  PROVE  IInv'
<1> USE DEF clientVars
<1>1. /\ k \in serverEnd /\ k \notin Registered
      /\ serverEnd' = serverEnd \ {k} /\ reset' = reset \ {k}
      /\ stuck' = [j \in Conn |-> IF j \in {k} THEN 0 ELSE stuck[j]]
      /\ UNCHANGED <<listening, sock, chan, cut>>
      /\ UNCHANGED <<nic, lastIp, announced, spc, clients, todo>>
      /\ faults > 0 /\ faults' = faults - 1
  BY DEF RejectClone, CloseServer, Fault, serverVars
<1>2. Registered' = Registered
  BY <1>1 DEF Registered
<1>3. TypeOK'
  BY <1>1, TcpAssumption DEF IInv, TypeOK, TcpTypeOK, ServerTypeOK, ClientTypeOK
<1>4. ListOK'
  BY <1>1, <1>2 DEF IInv, ListOK
<1>5. EndsOK'
  BY <1>1, <1>2 DEF IInv, EndsOK, ConnOK, Held
<1>6. ASSUME NEW c \in Clients PROVE ClientOK(c)'
  <2>1. Written(Current(c))' = Written(Current(c)) /\ Written(Current(c)) \in Nat
    BY <1>1, WrittenType DEF IInv, ListOK, Written, Current
  <2>2. HostsOK(c)' /\ (sock'[c] # 0 => ChanOK(c)' /\ MsgOK(c)')
    BY <1>1, <2>1, Frame
  <2>3. Current(c) \in Registered => stuck'[Current(c)] = stuck[Current(c)]
    BY <1>1, RegisteredConn DEF IInv
  <2>4. TailOK(c)'
    BY <1>1, <1>2, <2>1, <2>3, FrameTail
  <2> QED BY <2>2, <2>4 DEF ClientOK
<1> QED BY <1>3, <1>4, <1>5, <1>6 DEF IInv

-----------------------------------------------------------------------------
(***************************************************************************)
(* The server process and the network.                                     *)
(***************************************************************************)

\* A dying server leaves at most part of one line, which nobody takes for an
\* announcement.
LEMMA ServerCrashInv ==
  ASSUME IInv, ServerCrash, UNCHANGED clientVars
  PROVE  IInv'
<1> USE DEF clientVars
<1>1. /\ spc' = "down" /\ listening' = FALSE /\ lastIp' = NoIp
      /\ clients' = <<>> /\ todo' = <<>>
      /\ serverEnd' = {} /\ reset' = reset \ serverEnd
      /\ stuck' = [j \in Conn |-> IF j \in serverEnd THEN 0 ELSE stuck[j]]
      /\ sock' = sock /\ cut' = cut /\ nic' = nic /\ announced' = announced
      /\ faults > 0 /\ faults' = faults - 1
  BY DEF ServerCrash, CloseServer, Fault
<1>2. Range(<<>>) = {} /\ IsInjective(<<>>) /\ \A S : <<>> \in Seq(S)
  BY EmptySeq DEF Range, IsInjective
<1>3. Registered' = {}
  BY <1>1, <1>2 DEF Registered
<1>4. PICK k, b : k = Head(todo) /\ b = Partial(k)
  OBVIOUS
<1>5. \/ chan' = chan
      \/ /\ todo # <<>> /\ Held(k) /\ k \notin cut
         /\ chan' = [chan EXCEPT ![k] = Append(@, b)]
  BY <1>4 DEF ServerCrash
<1>6. todo # <<>> => k \in Conn /\ k \in Registered
  BY <1>4, TakeFacts
<1>7. /\ b.type = "truncated" /\ b.ver = Written(k) /\ b.ver \in Nat
      /\ b \in Line /\ b.ver <= Len(announced)
  BY <1>4, WrittenType DEF Partial, Line, IInv, ListOK
<1>8. \A x : Written(x) \in Nat /\ Written(x) <= Len(announced)
  BY WrittenType DEF IInv, ListOK
<1>9. Len(announced) \in Nat
  BY LenProperties DEF IInv, TypeOK, ServerTypeOK
<1>10. TypeOK'
  <2>1. chan' \in [Conn -> Seq(Line)]
    <3>1. todo # <<>> => Append(chan[k], b) \in Seq(Line)
      BY <1>6, <1>7, AppendProperties DEF IInv, TypeOK, TcpTypeOK
    <3> QED BY <1>5, <1>6, <3>1 DEF IInv, TypeOK, TcpTypeOK
  <2>2. clients' \in Seq(Conn) /\ todo' \in Seq(Conn)
    BY <1>1, EmptySeq
  <2>3. faults' \in 0..MaxFaults
    BY <1>1, TcpAssumption DEF IInv, TypeOK, TcpTypeOK
  <2>4. ServerTypeOK' /\ ClientTypeOK'
    BY <1>1, <2>2 DEF IInv, TypeOK, ServerTypeOK, ServerPC, ClientTypeOK
  <2>5. stuck' \in [Conn -> Nat]
    BY <1>1 DEF IInv, TypeOK, TcpTypeOK
  <2>6. TcpTypeOK'
    BY <1>1, <2>1, <2>3, <2>5 DEF IInv, TypeOK, TcpTypeOK
  <2> QED BY <2>4, <2>6 DEF TypeOK
<1>11. ListOK'
  BY <1>1, <1>2, <1>3 DEF ListOK
<1>12. EndsOK'
  <2>1. \A j \in Conn : ~Held(j) => chan'[j] = <<>>
    BY <1>5, <1>6 DEF IInv, EndsOK, ConnOK, TypeOK, TcpTypeOK
  <2> QED BY <1>1, <1>3, <2>1 DEF IInv, EndsOK, ConnOK, Held
<1>13. ASSUME NEW c \in Clients PROVE ClientOK(c)'
  <2>1. Written(Current(c))' = Len(announced)
    BY <1>1 DEF Written
  <2>2. CASE sock[c] # 0 => chan'[Current(c)] = chan[Current(c)]
    <3>1. HostsOK(c)' /\ (sock'[c] # 0 => ChanOK(c)' /\ MsgOK(c)')
      BY <1>1, <1>8, <1>9, <2>1, <2>2, Frame
    <3>2. TailOK(c)'
      BY <1>3, FrameTail, <1>1
    <3> QED BY <3>1, <3>2 DEF ClientOK
  <2>3. CASE sock[c] # 0 /\ chan'[Current(c)] # chan[Current(c)]
    <3>1. Current(c) \in Conn
      BY <2>3, CurrentConn DEF IInv, TypeOK, TcpTypeOK
    <3>2. /\ todo # <<>> /\ k = Current(c) /\ k \notin cut /\ Held(k)
          /\ chan' = [chan EXCEPT ![k] = Append(@, b)]
      BY <1>5, <2>3, <3>1 DEF IInv, TypeOK, TcpTypeOK
    <3>3. k \in Conn /\ k \in Registered /\ stuck[k] = 0
      BY <1>6, <3>2 DEF IInv, EndsOK, ConnOK
    <3>4. Written(k)' = Len(announced)
      BY <1>1 DEF Written
    <3>5. Truthful(b, k)'
      BY <1>7, <3>4 DEF Truthful
    <3> QED BY <1>1, <1>3, <1>7, <1>8, <1>9, <2>3, <3>2, <3>3, <3>4, <3>5, LineAppended
  <2> QED BY <2>2, <2>3
<1> QED BY <1>10, <1>11, <1>12, <1>13 DEF IInv

\* A server that starts has no connections.
LEMMA ServerStartInv ==
  ASSUME IInv, ServerStart, UNCHANGED clientVars
  PROVE  IInv'
<1> USE DEF ServerStart, clientVars
<1>1. TypeOK'
  BY DEF IInv, TypeOK, TcpTypeOK, ServerTypeOK, ServerPC, ClientTypeOK
<1>2. ListOK'
  BY DEF IInv, ListOK, Registered
<1>3. EndsOK'
  BY DEF IInv, EndsOK, ConnOK, Held, Registered
<1>4. ASSUME NEW c \in Clients PROVE ClientOK(c)'
  <2>1. Written(Current(c))' = Written(Current(c)) /\ Written(Current(c)) \in Nat
    BY WrittenType DEF IInv, ListOK, Written
  <2>2. HostsOK(c)' /\ (sock'[c] # 0 => ChanOK(c)' /\ MsgOK(c)')
    BY <2>1, Frame
  <2>3. TailOK(c)'
    BY <2>1, FrameTail DEF Registered
  <2> QED BY <2>2, <2>3 DEF ClientOK
<1> QED BY <1>1, <1>2, <1>3, <1>4 DEF IInv

\* That the kernel gives a connection up shows only at the next write.
LEMMA GiveUpInv ==
  ASSUME IInv, NEW k \in Conn, GiveUp(k), UNCHANGED <<serverVars, clientVars>>
  PROVE  IInv'
<1> USE DEF GiveUp, serverVars, clientVars
<1>1. TypeOK'
  BY DEF IInv, TypeOK, TcpTypeOK, ServerTypeOK, ClientTypeOK
<1>2. ListOK'
  BY DEF IInv, ListOK, Registered
<1>3. EndsOK'
  BY DEF IInv, EndsOK, ConnOK, Held, Registered
<1>4. ASSUME NEW c \in Clients PROVE ClientOK(c)'
  <2>1. Written(Current(c))' = Written(Current(c)) /\ Written(Current(c)) \in Nat
    BY WrittenType DEF IInv, ListOK, Written, Current
  <2>2. HostsOK(c)' /\ (sock'[c] # 0 => ChanOK(c)' /\ MsgOK(c)')
    BY <2>1, Frame
  <2>3. TailOK(c)'
    BY <2>1, FrameTail DEF Registered
  <2> QED BY <2>2, <2>3 DEF ClientOK
<1> QED BY <1>1, <1>2, <1>3, <1>4 DEF IInv

\* Severing connections shortens channels from their end, and marks those.
LEMMA SeverAllInv ==
  ASSUME IInv, NEW S \in SUBSET Severable, NEW n \in Nat, SeverAll(S, n),
         UNCHANGED <<clientVars, listening, serverEnd, sock, reset>>,
         UNCHANGED <<lastIp, announced, spc, clients, todo>>,
         nic' \in IPs \cup {NoIp}, faults' \in 0..MaxFaults
  PROVE  IInv'
<1> USE DEF clientVars
<1>1. /\ cut' = cut \cup S /\ chan \in [Conn -> Seq(Line)] /\ stuck \in [Conn -> Nat]
      /\ \A k \in Conn : (k \in S /\ n < Len(chan[k])) =>
            chan'[k] = SubSeq(chan[k], 1, n) /\ stuck'[k] = stuck[k] + Len(chan[k]) - n
      /\ \A k \in Conn : ~(k \in S /\ n < Len(chan[k])) =>
            chan'[k] = chan[k] /\ stuck'[k] = stuck[k]
      /\ DOMAIN chan' = Conn /\ DOMAIN stuck' = Conn
  BY DEF SeverAll, IInv, TypeOK, TcpTypeOK
<1>2. \A k \in S : k \in Conn /\ k \in serverEnd /\ Held(k) /\ k \notin cut
  BY DEF Severable, IInv, TypeOK, TcpTypeOK
<1>3. ASSUME NEW k \in Conn, k \in S, n < Len(chan[k])
      PROVE  /\ chan'[k] \in Seq(Line) /\ Len(chan'[k]) = n
             /\ \A i \in 1..n : chan'[k][i] = chan[k][i]
             /\ stuck'[k] \in Nat \ {0} /\ chan[k] # <<>>
  <2>1. chan[k] \in Seq(Line) /\ Len(chan[k]) \in Nat /\ stuck[k] \in Nat
    BY <1>1, LenProperties
  <2>2. \A i \in 1..n : chan[k][i] \in Line
    BY <1>3, <2>1, ElementOfSeq
  <2>3. /\ SubSeq(chan[k], 1, n) \in Seq(Line) /\ Len(SubSeq(chan[k], 1, n)) = n
        /\ \A i \in 1..n : SubSeq(chan[k], 1, n)[i] = chan[k][i]
    BY <2>2, SubSeqProperties
  <2>4. stuck[k] + Len(chan[k]) - n \in Nat \ {0} /\ chan[k] # <<>>
    BY <1>3, <2>1, EmptySeq
  <2> QED BY <1>1, <1>3, <2>3, <2>4
<1>4. TypeOK'
  <2>1. chan' \in [Conn -> Seq(Line)] /\ stuck' \in [Conn -> Nat]
    <3>1. chan' = [k \in Conn |-> chan'[k]] /\ stuck' = [k \in Conn |-> stuck'[k]]
      BY DEF SeverAll
    <3>2. \A k \in Conn : chan'[k] \in Seq(Line) /\ stuck'[k] \in Nat
      BY <1>1, <1>3
    <3> QED BY <3>1, <3>2
  <2>2. cut' \in SUBSET Conn
    BY <1>1, <1>2 DEF IInv, TypeOK, TcpTypeOK
  <2> QED BY <2>1, <2>2 DEF IInv, TypeOK, TcpTypeOK, ServerTypeOK, ClientTypeOK
<1>5. Registered' = Registered
  BY DEF Registered
<1>6. ListOK'
  BY <1>5 DEF IInv, ListOK
<1>7. EndsOK'
  <2>1. ASSUME NEW k \in Conn PROVE ConnOK(k)'
    BY <1>1, <1>2, <1>3, <1>5 DEF IInv, EndsOK, ConnOK, Held
  <2> QED BY <2>1 DEF IInv, EndsOK, ConnOK
<1>8. ASSUME NEW c \in Clients PROVE ClientOK(c)'
  <2>1. /\ Written(Current(c))' = Written(Current(c)) /\ Written(Current(c)) \in Nat
        /\ Current(c)' = Current(c)
    BY WrittenType DEF IInv, ListOK, Written, Current
  <2>2. CASE sock[c] = 0 \/ ~(Current(c) \in S /\ n < Len(chan[Current(c)]))
    <3>1. HostsOK(c)' /\ (sock'[c] # 0 => ChanOK(c)' /\ MsgOK(c)')
      BY <1>1, <2>1, <2>2, CurrentConn, Frame DEF IInv, TypeOK, TcpTypeOK
    <3>2. TailOK(c)'
      <4>1. Current(c) \in Registered => Current(c) \in Conn /\ sock[c] # 0
        BY RegisteredConn, CurrentHeld DEF IInv
      <4> QED BY <1>1, <1>5, <2>1, <2>2, <4>1, FrameTail
    <3> QED BY <3>1, <3>2 DEF ClientOK
  <2>3. CASE sock[c] # 0 /\ Current(c) \in S /\ n < Len(chan[Current(c)])
    <3>1. PICK k \in Conn : k = Current(c)
      BY <1>2, <2>3
    <3>2. /\ Len(chan'[k]) = n /\ stuck'[k] # 0 /\ chan[k] # <<>>
          /\ \A i \in 1..n : chan'[k][i] = chan[k][i]
      BY <1>3, <2>3, <3>1
    <3>3. Len(chan[k]) \in Nat /\ n < Len(chan[k])
      BY <1>1, <2>3, <3>1, LenProperties
    <3>4. HostsOK(c) /\ ChanOK(c) /\ MsgOK(c)
      BY <2>3 DEF IInv, ClientOK
    <3>5. HostsOK(c)'
      BY <2>1, <3>4 DEF HostsOK
    <3>6. TailOK(c)'
      BY <2>1, <3>1, <3>2 DEF TailOK
    <3>7. Written(k)' = Written(k)
      BY DEF Written
    <3>8. ChanOK(c)'
      <4>1. \A i \in 1..n : i \in 1..Len(chan[k])
        BY <3>3
      <4>2. \A i \in 1..n - 1 : i \in 1..n /\ i + 1 \in 1..n /\ i \in 1..Len(chan[k]) - 1
        BY <3>3
      <4>3. \A i \in 1..n : chan'[k][i].type = "ip_update" => chan'[k][i].ver > hosts[c].ver
        BY <3>1, <3>2, <3>4, <4>1 DEF ChanOK
      <4>4. \A i, j \in 1..n : i < j => Later(chan'[k][i], chan'[k][j])
        BY <3>1, <3>2, <3>4, <4>1 DEF ChanOK
      <4>5. \A i \in 1..n - 1 : Follows(chan'[k][i], chan'[k][i + 1])
        BY <3>1, <3>2, <3>4, <4>2 DEF ChanOK
      <4>6. ASSUME NEW i \in 1..n PROVE Truthful(chan[k][i], k)'
        <5>1. Truthful(chan[k][i], k)
          BY <3>1, <3>4, <4>1 DEF ChanOK
        <5> QED BY <3>2, <3>7, <5>1 DEF Truthful
      <4>7. k = Current(c)' /\ Len(chan'[k]) = n /\ hosts'[c] = hosts[c]
        BY <2>1, <3>1, <3>2
      <4> QED BY <4>3, <4>4, <4>5, <4>6, <4>7 DEF ChanOK
    <3>9. MsgOK(c)'
      <4> SUFFICES ASSUME msg[c] # NoMessage PROVE MsgOK(c)'
        BY DEF MsgOK, NoMessage
      <4>1. Truthful(msg[c], k)'
        BY <3>1, <3>4, <3>7 DEF MsgOK, Truthful
      <4>2. \A i \in 1..n : Later(msg[c], chan'[k][i])
        BY <3>1, <3>2, <3>3, <3>4 DEF MsgOK
      <4>3. chan'[k] # <<>> => 1 \in 1..n /\ Follows(msg[c], chan'[k][1])
        <5>1. chan'[k] # <<>> => n > 0
          BY <1>3, <2>3, <3>1, <3>2, EmptySeq
        <5> QED BY <3>1, <3>2, <3>4, <5>1 DEF MsgOK
      <4> QED BY <2>1, <3>1, <3>2, <4>1, <4>2, <4>3 DEF MsgOK, Later, Follows
    <3> QED BY <3>5, <3>6, <3>8, <3>9 DEF ClientOK
  <2> QED BY <2>2, <2>3
<1> QED BY <1>4, <1>6, <1>7, <1>8 DEF IInv

-----------------------------------------------------------------------------
(***************************************************************************)
(* The clients.                                                            *)
(***************************************************************************)

\* A step of client c leaves another client d alone.
LEMMA OtherClient ==
  ASSUME IInv, NEW c \in Clients, NEW d \in Clients, d # c, UNCHANGED serverVars,
         sock'[d] = sock[d], msg'[d] = msg[d], hosts'[d] = hosts[d], cpc'[d] = cpc[d],
         sock[d] # 0 => chan'[Current(d)] = chan[Current(d)],
         sock[d] # 0 => stuck'[Current(d)] = stuck[Current(d)]
  PROVE  ClientOK(d)'
<1> USE DEF serverVars
<1>1. Written(Current(d))' = Written(Current(d)) /\ Written(Current(d)) \in Nat
  BY WrittenType DEF IInv, ListOK, Written, Current
<1>2. HostsOK(d)' /\ (sock'[d] # 0 => ChanOK(d)' /\ MsgOK(d)')
  BY <1>1, Frame
<1>3. Current(d) \in Registered => sock[d] # 0
  BY RegisteredConn, CurrentHeld DEF IInv
<1>4. TailOK(d)'
  BY <1>1, <1>3, FrameTail DEF Registered
<1> QED BY <1>2, <1>4 DEF ClientOK

\* A step of client c that only moves it on, not into update_hosts_entry.
LEMMA PcStep ==
  ASSUME IInv, NEW c \in Clients, UNCHANGED serverVars,
         UNCHANGED <<listening, serverEnd, sock, chan, stuck, cut, reset, msg, hosts>>,
         NEW pc \in ClientPC, pc # "apply", cpc' = [cpc EXCEPT ![c] = pc],
         (cpc[c] \in {"read", "apply"}) <=> (pc \in {"read", "apply"}),
         faults' \in 0..MaxFaults
  PROVE  IInv'
<1> USE DEF serverVars
<1>1. TypeOK'
  BY DEF IInv, TypeOK, TcpTypeOK, ServerTypeOK, ClientTypeOK
<1>2. ListOK'
  BY DEF IInv, ListOK, Registered
<1>3. /\ cpc'[c] = pc
      /\ \A d \in Clients : d # c => cpc'[d] = cpc[d]
  BY DEF IInv, TypeOK, ClientTypeOK
<1>4. EndsOK'
  BY <1>3 DEF IInv, EndsOK, ConnOK, Held, Registered
<1>5. ASSUME NEW d \in Clients PROVE ClientOK(d)'
  <2>1. Written(Current(d))' = Written(Current(d)) /\ Written(Current(d)) \in Nat
    BY WrittenType DEF IInv, ListOK, Written, Current
  <2>2. cpc'[d] = "apply" => cpc[d] = "apply"
    BY <1>3
  <2>3. HostsOK(d)' /\ (sock'[d] # 0 => ChanOK(d)' /\ MsgOK(d)')
    BY <2>1, <2>2, Frame
  <2>4. TailOK(d)'
    BY <2>1, FrameTail DEF Registered
  <2> QED BY <2>3, <2>4 DEF ClientOK
<1> QED BY <1>1, <1>2, <1>4, <1>5 DEF IInv

\* A new connection is empty, and its client has nothing in hand.
LEMMA ConnectInv ==
  ASSUME IInv, NEW c \in Clients, NEW k \in Conn, Connect(c, k), UNCHANGED serverVars
  PROVE  IInv'
<1> USE DEF serverVars
<1>1. /\ k[1] = c /\ k \notin serverEnd /\ sock[k[1]] # k[2]
      /\ serverEnd' = serverEnd \cup {k} /\ sock' = [sock EXCEPT ![c] = k[2]]
      /\ cpc' = [cpc EXCEPT ![c] = "read"] /\ cpc[c] = "connect"
      /\ UNCHANGED <<listening, chan, stuck, cut, reset, faults, msg, hosts>>
  BY DEF Connect, Open, Free, Held
<1>2. /\ sock[c] = 0 /\ msg[c] = NoMessage
      /\ chan[k] = <<>> /\ stuck[k] = 0 /\ k \notin cut
  BY <1>1 DEF IInv, EndsOK, ConnOK, Held
<1>3. k[2] \in 1..MaxConns /\ k = <<c, k[2]>> /\ k[2] # 0 /\ k[2] \in 0..MaxConns
  BY <1>1, ConnPair, TcpAssumption
<1>4. /\ sock'[c] = k[2] /\ cpc'[c] = "read"
      /\ \A d \in Clients : d # c => sock'[d] = sock[d] /\ cpc'[d] = cpc[d]
  BY <1>1 DEF IInv, TypeOK, TcpTypeOK, ClientTypeOK
<1>5. Registered' = Registered /\ k \notin Registered
  BY <1>1 DEF Registered, IInv, ListOK
<1>6. TypeOK'
  BY <1>1, <1>3 DEF IInv, TypeOK, TcpTypeOK, ServerTypeOK, ClientTypeOK, ClientPC
<1>7. ListOK'
  BY <1>1, <1>5 DEF IInv, ListOK
<1>8. EndsOK'
  <2>1. \A d \in Clients :
          /\ (sock'[d] # 0) <=> (cpc'[d] \in {"read", "apply"})
          /\ sock'[d] = 0 => msg'[d] = NoMessage
    BY <1>1, <1>3, <1>4 DEF IInv, EndsOK, ConnOK
  <2>2. ASSUME NEW j \in Conn, j # k PROVE ConnOK(j)'
    <3>1. j[1] \in Clients /\ j[2] \in 1..MaxConns /\ (j[1] = c => j[2] # k[2])
      BY <1>3, <2>2, ConnPair
    <3>2. Held(j)' <=> Held(j)
      <4>1. CASE j[1] = c
        BY <1>2, <1>4, <3>1, <4>1 DEF Held
      <4>2. CASE j[1] # c
        BY <1>4, <3>1, <4>2 DEF Held
      <4> QED BY <4>1, <4>2
    <3>3. serverEnd' = serverEnd \cup {k} /\ UNCHANGED <<chan, stuck, cut, msg>>
      BY <1>1
    <3> QED BY <1>5, <2>2, <3>2, <3>3 DEF IInv, EndsOK, ConnOK
  <2>3. ConnOK(k)'
    <3>1. Held(k)' /\ k \in serverEnd'
      BY <1>1, <1>4 DEF Held
    <3> QED BY <1>1, <1>2, <3>1 DEF ConnOK
  <2> QED BY <2>1, <2>2, <2>3 DEF EndsOK
<1>9. ASSUME NEW d \in Clients PROVE ClientOK(d)'
  <2>1. CASE d # c
    BY <1>1, <1>4, <2>1, OtherClient
  <2>2. CASE d = c
    <3>1. Current(c)' = k
      BY <1>3, <1>4 DEF Current
    <3>2. Current(c) \notin Conn /\ Current(c) \notin Registered
      BY <1>2, CurrentHeld, RegisteredConn DEF IInv
    <3>3. Written(Current(c))' = Written(Current(c))
      BY <1>5, <3>1, <3>2 DEF Written, Registered
    <3>4. HostsOK(c)'
      BY <1>1, <1>4, <3>3 DEF IInv, ClientOK, HostsOK
    <3>5. TailOK(c)'
      BY <1>5, <3>1 DEF TailOK
    <3>6. chan'[k] = <<>> /\ Len(chan'[k]) = 0 /\ msg'[c] = NoMessage
      BY <1>1, <1>2, EmptySeq
    <3>7. ChanOK(c)'
      BY <3>1, <3>6 DEF ChanOK
    <3>8. MsgOK(c)'
      BY <3>6 DEF MsgOK, NoMessage
    <3> QED BY <2>2, <3>4, <3>5, <3>7, <3>8 DEF ClientOK
  <2> QED BY <2>1, <2>2
<1> QED BY <1>6, <1>7, <1>8, <1>9 DEF IInv

\* A line is read in its turn; what follows it follows the message it carries.
LEMMA ReadLineInv ==
  ASSUME IInv, NEW c \in Clients, ReadLine(c), UNCHANGED serverVars
  PROVE  IInv'
<1> USE DEF serverVars
<1>1. PICK k, line : k = Current(c) /\ line = Head(chan[k])
  OBVIOUS
<1>2. /\ cpc[c] = "read" /\ chan[k] # <<>>
      /\ chan' = [chan EXCEPT ![k] = Tail(@)]
      /\ msg' = IF line.type = "truncated" THEN msg ELSE [msg EXCEPT ![c] = line]
      /\ cpc' = [cpc EXCEPT ![c] = IF line.type = "ip_update" THEN "apply" ELSE "read"]
      /\ UNCHANGED <<listening, serverEnd, sock, stuck, cut, reset, faults, hosts>>
  BY <1>1 DEF ReadLine
<1>3. /\ sock[c] # 0 /\ k \in Conn /\ Held(k) /\ k[1] = c
      /\ chan \in [Conn -> Seq(Line)] /\ msg \in [Clients -> Line \cup {NoMessage}]
      /\ cpc \in [Clients -> ClientPC]
  BY <1>1, <1>2, CurrentConn DEF IInv, EndsOK, TypeOK, TcpTypeOK, ClientTypeOK
<1>4. /\ chan'[k] \in Seq(Line) /\ Len(chan'[k]) = Len(chan[k]) - 1
      /\ Len(chan[k]) \in Nat \ {0} /\ line = chan[k][1] /\ line \in Line
      /\ \A i \in 1..Len(chan'[k]) : chan'[k][i] = chan[k][i + 1]
  <2>1. chan'[k] = Tail(chan[k]) /\ chan[k] \in Seq(Line) /\ chan[k] # <<>>
    BY <1>2, <1>3
  <2>2. Len(chan[k]) \in Nat \ {0}
    BY <2>1, EmptySeq
  <2>3. /\ Tail(chan[k]) \in Seq(Line) /\ Len(Tail(chan[k])) = Len(chan[k]) - 1
        /\ \A i \in 1..Len(Tail(chan[k])) : Tail(chan[k])[i] = chan[k][i + 1]
        /\ Head(chan[k]) \in Line
    BY <2>1, HeadTailProperties
  <2>4. Head(chan[k]) = chan[k][1]
    BY <2>1, <2>2
  <2> QED BY <1>1, <2>1, <2>2, <2>3, <2>4
<1>5. TypeOK'
  BY <1>2, <1>3, <1>4 DEF IInv, TypeOK, TcpTypeOK, ServerTypeOK, ClientTypeOK, ClientPC
<1>6. Registered' = Registered
  BY DEF Registered
<1>7. ListOK'
  BY <1>2, <1>6 DEF IInv, ListOK
<1>8. EndsOK'
  <2>1. \A d \in Clients :
          /\ (sock'[d] # 0) <=> (cpc'[d] \in {"read", "apply"})
          /\ sock'[d] = 0 => msg'[d] = NoMessage
    BY <1>2, <1>3 DEF IInv, EndsOK
  <2>2. ASSUME NEW j \in Conn PROVE ConnOK(j)'
    <3>1. CASE j # k
      <4>1. Held(j) => j[1] # c
        BY <1>1, <3>1, HeldCurrent
      <4>2. chan'[j] = chan[j] /\ (Held(j) => msg'[j[1]] = msg[j[1]])
        BY <1>2, <1>3, <3>1, <4>1, ConnPair
      <4> QED BY <1>2, <1>6, <4>2 DEF IInv, EndsOK, ConnOK, Held
    <3>2. CASE j = k
      BY <1>2, <1>3, <1>6, <3>2 DEF IInv, EndsOK, ConnOK, Held
    <3> QED BY <3>1, <3>2
  <2> QED BY <2>1, <2>2 DEF EndsOK
<1>9. ClientOK(c)'
  <2>1. HostsOK(c) /\ TailOK(c) /\ ChanOK(c) /\ MsgOK(c)
    BY <1>3 DEF IInv, ClientOK
  <2>2. Current(c)' = k /\ Written(k)' = Written(k) /\ hosts'[c] = hosts[c]
    BY <1>1, <1>2 DEF Current, Written
  <2>3. hosts[c].ver \in Nat /\ msg[c].ver \in Nat /\ line.ver \in Nat /\ Written(k) \in Nat
    BY <1>4, ClientTypes, WrittenType DEF IInv, ListOK, Line
  <2>4. \A i \in 1..Len(chan'[k]) : i + 1 \in 1..Len(chan[k]) /\ 1 < i + 1
    BY <1>4
  <2>5. Truthful(line, k) /\ (line.type = "ip_update" => line.ver > hosts[c].ver)
    BY <1>1, <1>4, <2>1 DEF ChanOK
  <2>6. \A i \in 1..Len(chan'[k]) : Later(line, chan'[k][i])
    BY <1>1, <1>4, <2>1, <2>4 DEF ChanOK
  <2>7. chan'[k] # <<>> => 1 \in 1..Len(chan'[k]) /\ Follows(line, chan'[k][1])
    <3>1. chan'[k] # <<>> => 1 \in 1..Len(chan'[k]) /\ 1 \in 1..Len(chan[k]) - 1
      BY <1>4, EmptySeq
    <3> QED BY <1>1, <1>4, <2>1, <3>1 DEF ChanOK
  <2>8. HostsOK(c)'
    <3>1. hosts[c].ver <= Written(k)
      BY <1>1, <2>1 DEF HostsOK
    <3>2. cpc'[c] = "apply" => line.type = "ip_update" /\ msg'[c] = line
      BY <1>2, <1>3
    <3> QED BY <2>2, <2>5, <3>1, <3>2 DEF HostsOK
  <2>9. ChanOK(c)'
    <3>1. ASSUME NEW i \in 1..Len(chan'[k]) PROVE Truthful(chan[k][i], k)'
      <4>1. Truthful(chan[k][i + 1], k)
        BY <1>1, <2>1, <2>4 DEF ChanOK
      <4> QED BY <1>4, <2>2, <4>1 DEF Truthful
    <3>2. \A i \in 1..Len(chan'[k]) : chan'[k][i].type = "ip_update" => chan'[k][i].ver > hosts[c].ver
      BY <1>1, <1>4, <2>1, <2>4 DEF ChanOK
    <3>3. \A i, j \in 1..Len(chan'[k]) : i < j => Later(chan'[k][i], chan'[k][j])
      BY <1>1, <1>4, <2>1, <2>4 DEF ChanOK
    <3>4. ASSUME NEW i \in 1..Len(chan'[k]) - 1
          PROVE  Follows(chan'[k][i], chan'[k][i + 1])
      <4>1. /\ i + 1 \in 1..Len(chan[k]) - 1
            /\ chan'[k][i] = chan[k][i + 1] /\ chan'[k][i + 1] = chan[k][i + 1 + 1]
        <5>1. i \in 1..Len(chan'[k]) /\ i + 1 \in 1..Len(chan'[k])
          BY <1>4
        <5> QED BY <1>4, <5>1
      <4> QED BY <1>1, <2>1, <4>1 DEF ChanOK
    <3> QED BY <2>2, <3>1, <3>2, <3>3, <3>4 DEF ChanOK
  <2>10. CASE line.type = "truncated"
    <3>1. msg' = msg
      BY <1>2, <2>10
    <3>2. MsgOK(c)'
      <4> SUFFICES ASSUME msg[c] # NoMessage PROVE MsgOK(c)'
        BY <3>1 DEF MsgOK, NoMessage
      <4>1. Truthful(msg[c], k)'
        <5>1. Truthful(msg[c], k)
          BY <1>1, <2>1 DEF MsgOK
        <5> QED BY <2>2, <3>1, <5>1 DEF Truthful
      <4>2. Follows(msg[c], line) /\ line.ver = msg[c].ver
        BY <1>1, <1>2, <1>4, <2>1, <2>10 DEF MsgOK, Follows
      <4>3. \A i \in 1..Len(chan'[k]) : Later(msg[c], chan'[k][i])
        BY <2>6, <4>2 DEF Later
      <4>4. chan'[k] # <<>> => Follows(msg[c], chan'[k][1])
        BY <2>7, <4>2 DEF Follows
      <4> QED BY <2>2, <3>1, <4>1, <4>3, <4>4 DEF MsgOK, Later, Follows
    <3>3. TailOK(c)'
      <4> SUFFICES ASSUME k \in Registered, stuck[k] = 0 PROVE TailOK(c)'
        BY <1>2, <1>6, <2>2 DEF TailOK
      <4>1. chan[k][Len(chan[k])].ver = Written(k)
        BY <1>1, <1>2, <2>1 DEF TailOK
      <4>2. chan'[k] # <<>> => chan'[k][Len(chan'[k])].ver = Written(k)
        BY <1>4, <4>1, EmptySeq
      <4>3. (chan'[k] = <<>> /\ msg[c] # NoMessage) => msg[c].ver = Written(k)
        <5>1. chan'[k] = <<>> => Len(chan[k]) = 1
          BY <1>4, EmptySeq
        <5>2. msg[c] # NoMessage => line.ver = msg[c].ver
          BY <1>1, <1>2, <1>4, <2>1, <2>10 DEF MsgOK, Follows
        <5> QED BY <1>4, <4>1, <5>1, <5>2
      <4> QED BY <2>2, <3>1, <4>2, <4>3 DEF TailOK, NoMessage
    <3> QED BY <2>8, <2>9, <3>2, <3>3 DEF ClientOK
  <2>11. CASE line.type # "truncated"
    <3>1. msg'[c] = line /\ line # NoMessage
      BY <1>2, <1>3, <1>4, <2>11 DEF Line, NoMessage
    <3>2. MsgOK(c)'
      <4>1. Truthful(line, k)'
        BY <1>2, <2>2, <2>5 DEF Truthful
      <4> QED BY <2>2, <2>6, <2>7, <3>1, <4>1 DEF MsgOK, Later, Follows
    <3>3. TailOK(c)'
      <4> SUFFICES ASSUME k \in Registered, stuck[k] = 0 PROVE TailOK(c)'
        BY <1>2, <1>6, <2>2 DEF TailOK
      <4>1. chan[k][Len(chan[k])].ver = Written(k)
        BY <1>1, <1>2, <2>1 DEF TailOK
      <4>2. chan'[k] # <<>> => chan'[k][Len(chan'[k])].ver = Written(k)
        BY <1>4, <4>1, EmptySeq
      <4>3. chan'[k] = <<>> => Len(chan[k]) = 1
        BY <1>4, EmptySeq
      <4> QED BY <1>4, <2>2, <3>1, <4>1, <4>2, <4>3 DEF TailOK
    <3> QED BY <2>8, <2>9, <3>2, <3>3 DEF ClientOK
  <2> QED BY <2>10, <2>11
<1>10. ASSUME NEW d \in Clients, d # c PROVE ClientOK(d)'
  <2>1. sock[d] # 0 => Current(d) \in Conn /\ Current(d) # k
    BY <1>1, <1>3, <1>10, CurrentConn DEF IInv, TypeOK, TcpTypeOK
  <2>2. msg'[d] = msg[d] /\ cpc'[d] = cpc[d]
    BY <1>2, <1>3, <1>10
  <2>3. sock[d] # 0 => chan'[Current(d)] = chan[Current(d)]
    BY <1>2, <1>3, <2>1
  <2> QED BY <1>2, <1>10, <2>2, <2>3, OtherClient
<1> QED BY <1>5, <1>7, <1>8, <1>9, <1>10 DEF IInv

\* The message applied is the newest the client has had (client lib.rs:72-73).
LEMMA ApplyInv ==
  ASSUME IInv, NEW c \in Clients, Apply(c), UNCHANGED serverVars
  PROVE  IInv'
<1> USE DEF serverVars, tcpVars
<1>1. /\ cpc[c] = "apply" /\ cpc' = [cpc EXCEPT ![c] = "read"]
      /\ hosts' = [hosts EXCEPT ![c] = [ip |-> msg[c].ip, ver |-> msg[c].ver]]
      /\ UNCHANGED <<tcpVars, msg>>
  BY DEF Apply
<1>2. sock[c] # 0 /\ HostsOK(c) /\ TailOK(c) /\ ChanOK(c) /\ MsgOK(c)
  BY <1>1 DEF IInv, EndsOK, ClientOK
<1>3. /\ msg[c].type = "ip_update" /\ msg[c] # NoMessage /\ msg[c] \in Line
      /\ msg[c].ver \in Nat /\ msg[c].ip \in IPs \cup {NoIp} /\ msg[c].ver > hosts[c].ver
  BY <1>1, <1>2 DEF HostsOK, NoMessage, Line, IInv, TypeOK, ClientTypeOK
<1>4. /\ hosts'[c] = [ip |-> msg[c].ip, ver |-> msg[c].ver] /\ cpc'[c] = "read"
      /\ hosts' \in [Clients -> Entry] /\ cpc' \in [Clients -> ClientPC]
      /\ \A d \in Clients : d # c => hosts'[d] = hosts[d] /\ cpc'[d] = cpc[d]
  BY <1>1, <1>3 DEF IInv, TypeOK, ClientTypeOK, Entry, ClientPC
<1>5. TypeOK'
  BY <1>1, <1>4 DEF IInv, TypeOK, TcpTypeOK, ServerTypeOK, ClientTypeOK
<1>6. Registered' = Registered
  BY DEF Registered
<1>7. ListOK'
  BY <1>1, <1>6 DEF IInv, ListOK
<1>8. EndsOK'
  BY <1>1, <1>4, <1>6 DEF IInv, EndsOK, ConnOK, Held
<1>9. ClientOK(c)'
  <2>1. /\ Current(c)' = Current(c) /\ Written(Current(c))' = Written(Current(c))
        /\ hosts'[c].ver = msg[c].ver
    BY <1>1, <1>4 DEF Current, Written
  <2>2. HostsOK(c)'
    BY <1>2, <1>3, <1>4, <2>1 DEF HostsOK, MsgOK, Truthful
  <2>3. TailOK(c)'
    BY <1>1, <1>2, <1>6, <2>1 DEF TailOK
  <2>4. MsgOK(c)'
    BY <1>1, <1>2, <2>1 DEF MsgOK, Truthful, Later, Follows
  <2>5. \A i \in 1..Len(chan[Current(c)]) :
          chan[Current(c)][i].type = "ip_update" => chan[Current(c)][i].ver > msg[c].ver
    <3>1. \A i \in 1..Len(chan[Current(c)]) : chan[Current(c)][i].ver \in Nat
      BY <1>2, ClientTypes DEF IInv
    <3> QED BY <1>2, <1>3, <3>1 DEF MsgOK, Later
  <2>6. ChanOK(c)'
    <3>1. chan' = chan
      BY <1>1
    <3>2. ASSUME NEW i \in 1..Len(chan[Current(c)])
          PROVE  Truthful(chan[Current(c)][i], Current(c))'
      BY <1>2, <2>1, <3>1 DEF ChanOK, Truthful
    <3> QED BY <1>2, <2>1, <2>5, <3>1, <3>2 DEF ChanOK
  <2> QED BY <2>2, <2>3, <2>4, <2>6 DEF ClientOK
<1>10. ASSUME NEW d \in Clients, d # c PROVE ClientOK(d)'
  BY <1>1, <1>4, <1>10, OtherClient
<1> QED BY <1>5, <1>7, <1>8, <1>9, <1>10 DEF IInv

\* Leaving a connection gives up what was in its channel.
LEMMA LeaveInv ==
  ASSUME IInv, NEW c \in Clients, NEW pc \in {"sleep", "connect"}, Leave(c, pc),
         cpc[c] \in {"read", "apply"}, faults' \in 0..MaxFaults, UNCHANGED serverVars
  PROVE  IInv'
<1> USE DEF serverVars
<1>1. PICK k : k = Current(c)
  OBVIOUS
<1>2. /\ sock' = [sock EXCEPT ![c] = 0] /\ chan' = [chan EXCEPT ![k] = <<>>]
      /\ stuck' = [stuck EXCEPT ![k] =
                     IF k \in serverEnd THEN @ + Len(chan[k]) ELSE 0]
      /\ cut' = cut \ {k} /\ cpc' = [cpc EXCEPT ![c] = pc]
      /\ msg' = [msg EXCEPT ![c] = NoMessage]
      /\ UNCHANGED <<listening, serverEnd, reset, hosts>>
  BY <1>1 DEF Leave, CloseClient
<1>3. sock[c] # 0 /\ k \in Conn /\ Held(k) /\ k[1] = c
  BY <1>1, CurrentConn DEF IInv, EndsOK, TypeOK, TcpTypeOK
<1>4. /\ stuck[k] \in Nat /\ Len(chan[k]) \in Nat /\ stuck \in [Conn -> Nat]
      /\ chan \in [Conn -> Seq(Line)] /\ sock \in [Clients -> 0..MaxConns]
      /\ cpc \in [Clients -> ClientPC] /\ msg \in [Clients -> Line \cup {NoMessage}]
  BY <1>3, LenProperties DEF IInv, TypeOK, TcpTypeOK, ClientTypeOK
<1>5. /\ sock'[c] = 0 /\ cpc'[c] = pc /\ msg'[c] = NoMessage /\ chan'[k] = <<>>
      /\ \A d \in Clients : d # c =>
            sock'[d] = sock[d] /\ cpc'[d] = cpc[d] /\ msg'[d] = msg[d]
      /\ \A j \in Conn : j # k => chan'[j] = chan[j] /\ stuck'[j] = stuck[j]
  BY <1>2, <1>3, <1>4
<1>6. TypeOK'
  <2>1. chan' \in [Conn -> Seq(Line)]
    BY <1>2, <1>4, EmptySeq
  <2>2. stuck' \in [Conn -> Nat]
    <3>1. PICK m \in Nat : m = IF k \in serverEnd THEN stuck[k] + Len(chan[k]) ELSE 0
      BY <1>4
    <3>2. stuck' = [stuck EXCEPT ![k] = m]
      BY <1>2, <1>3, <1>4, <3>1
    <3> QED BY <1>4, <3>2
  <2>3. sock' \in [Clients -> 0..MaxConns]
    BY <1>2, <1>4, TcpAssumption
  <2> QED BY <1>2, <2>1, <2>2, <2>3
          DEF IInv, TypeOK, TcpTypeOK, ServerTypeOK, ClientTypeOK, ClientPC
<1>7. Registered' = Registered
  BY DEF Registered
<1>8. ListOK'
  BY <1>2, <1>7 DEF IInv, ListOK
<1>9. EndsOK'
  <2>1. \A d \in Clients :
          /\ (sock'[d] # 0) <=> (cpc'[d] \in {"read", "apply"})
          /\ sock'[d] = 0 => msg'[d] = NoMessage
    BY <1>5 DEF IInv, EndsOK
  <2>2. ASSUME NEW j \in Conn PROVE ConnOK(j)'
    <3>1. CASE j # k
      <4>1. j[1] \in Clients /\ j[2] # 0
        BY ConnPair, TcpAssumption
      <4>2. Held(j)' <=> Held(j)
        <5>1. CASE j[1] = c
          BY <1>1, <1>5, <3>1, <4>1, <5>1, HeldCurrent DEF Held
        <5>2. CASE j[1] # c
          BY <1>5, <4>1, <5>2 DEF Held
        <5> QED BY <5>1, <5>2
      <4>3. Held(j) => msg'[j[1]] = msg[j[1]]
        BY <1>1, <1>5, <3>1, <4>1, HeldCurrent
      <4> QED BY <1>2, <1>5, <1>7, <3>1, <4>2, <4>3 DEF IInv, EndsOK, ConnOK
    <3>2. CASE j = k
      <4>1. ~Held(k)'
        BY <1>3, <1>5, ConnPair DEF Held
      <4>2. k \notin serverEnd => stuck'[k] = 0
        BY <1>2, <1>3, <1>4
      <4>3. k \in serverEnd \ Registered => stuck'[k] = 0
        <5>1. k \in serverEnd \ Registered => stuck[k] = 0 /\ chan[k] = <<>>
          BY <1>3 DEF IInv, EndsOK, ConnOK
        <5> QED BY <1>2, <1>3, <1>4, <5>1, EmptySeq
      <4> QED BY <1>2, <1>5, <1>7, <3>2, <4>1, <4>2, <4>3 DEF ConnOK
    <3> QED BY <3>1, <3>2
  <2> QED BY <2>1, <2>2 DEF EndsOK
<1>10. ClientOK(c)'
  <2>1. Current(c)' \notin Conn
    BY <1>5, TcpAssumption DEF Current, Conn
  <2>2. Current(c)' \notin Registered'
    BY <1>7, <2>1, RegisteredConn DEF IInv
  <2>3. Written(Current(c))' = (IF spc = "announce" THEN Len(announced) - 1 ELSE Len(announced))
    BY <2>2 DEF Written, Registered
  <2>4. Written(k) <= Written(Current(c))' /\ Written(Current(c))' \in Nat /\ Written(k) \in Nat
    BY <2>3, WrittenType, LenProperties DEF Written, IInv, ListOK, TypeOK, ServerTypeOK
  <2>5. hosts[c].ver <= Written(k) /\ hosts[c].ver \in Nat
    BY <1>1, ClientTypes DEF IInv, ClientOK, HostsOK
  <2>6. HostsOK(c)'
    BY <1>2, <1>5, <2>4, <2>5 DEF HostsOK
  <2> QED BY <1>5, <2>2, <2>6 DEF ClientOK, TailOK
<1>11. ASSUME NEW d \in Clients, d # c PROVE ClientOK(d)'
  <2>1. sock[d] # 0 => Current(d) \in Conn /\ Current(d) # k
    BY <1>3, <1>4, <1>11, CurrentConn
  <2> QED BY <1>2, <1>5, <1>11, <2>1, OtherClient
<1> QED BY <1>6, <1>8, <1>9, <1>10, <1>11 DEF IInv

-----------------------------------------------------------------------------
(***************************************************************************)
(* The invariant.                                                          *)
(***************************************************************************)

\* It holds at the start: no connection, nothing announced.
LEMMA InitInv ==
  ASSUME Init
  PROVE  IInv
<1> USE DEF Init, TcpInit, ServerInit, ClientInit
<1>1. TypeOK
  BY TcpAssumption, EmptySeq
  DEF TypeOK, TcpTypeOK, ServerTypeOK, ClientTypeOK, ServerPC, ClientPC, Entry
<1>2. Range(clients) = {} /\ Range(todo) = {}
  BY DEF Range
<1>3. ListOK
  BY <1>2 DEF ListOK, Registered, IsInjective
<1>4. EndsOK
  <2>1. ASSUME NEW k \in Conn PROVE ConnOK(k)
    BY DEF ConnOK
  <2> QED BY <2>1 DEF EndsOK
<1>5. ASSUME NEW c \in Clients PROVE ClientOK(c)
  <2>1. sock[c] = 0 /\ cpc[c] = "connect" /\ hosts[c].ver = 0 /\ Written(Current(c)) = 0
    BY DEF Written
  <2>2. Current(c) \notin Registered
    BY <1>2 DEF Registered
  <2> QED BY <2>1, <2>2 DEF ClientOK, HostsOK, TailOK
<1> QED BY <1>1, <1>3, <1>4, <1>5 DEF IInv

\* Every step keeps it.
LEMMA NextInv ==
  ASSUME IInv, [Next]_vars
  PROVE  IInv'
<1>1. CASE ServerNext /\ UNCHANGED clientVars
  <2>1. CASE MainThread
    BY <1>1, <2>1, DetectChangedInv, DetectNothingInv, StartBroadcastInv,
       SendLineInv, DropInv, EndBroadcastInv DEF MainThread
  <2>2. CASE AcceptThread
    BY <1>1, <2>2, RegisterInv, RejectCloneInv DEF AcceptThread
  <2>3. CASE ServerCrash
    BY <1>1, <2>3, ServerCrashInv
  <2>4. CASE ServerStart
    BY <1>1, <2>4, ServerStartInv
  <2>5. ASSUME NEW ip \in IPs \cup {NoIp}, NEW S \in SUBSET Severable, NEW n \in 0..Buffer,
               NicChange(ip, S, n)
        PROVE  IInv'
    <3>1. /\ SeverAll(S, n) /\ nic' = ip /\ n \in Nat
          /\ UNCHANGED <<listening, serverEnd, sock, reset, faults,
                         lastIp, announced, spc, clients, todo>>
      BY <2>5, TcpAssumption DEF NicChange
    <3>2. nic' \in IPs \cup {NoIp} /\ faults' \in 0..MaxFaults
      BY <3>1 DEF IInv, TypeOK, TcpTypeOK
    <3>3. /\ UNCHANGED <<clientVars, listening, serverEnd, sock, reset>>
          /\ UNCHANGED <<lastIp, announced, spc, clients, todo>>
      BY <1>1, <3>1
    <3> QED BY <3>1, <3>2, <3>3, SeverAllInv
  <2> QED BY <1>1, <2>1, <2>2, <2>3, <2>4, <2>5 DEF ServerNext
<1>2. CASE ClientNext /\ UNCHANGED serverVars
  <2>0. faults \in 0..MaxFaults /\ (Fault => faults' \in 0..MaxFaults)
    BY TcpAssumption DEF Fault, IInv, TypeOK, TcpTypeOK
  <2>1. PICK c \in Clients : ClientStep(c) \/ ClientCrash(c)
    BY <1>2 DEF ClientNext
  <2>2. CASE \E k \in Conn : Connect(c, k)
    BY <1>2, <2>2, ConnectInv
  <2>3. CASE ConnectFail(c)
    BY <1>2, <2>0, <2>3, PcStep DEF ConnectFail, ClientPC
  <2>4. CASE Wake(c)
    BY <1>2, <2>0, <2>4, PcStep DEF Wake, ClientPC, tcpVars
  <2>5. CASE ReadLine(c)
    BY <1>2, <2>5, ReadLineInv
  <2>6. CASE Apply(c)
    BY <1>2, <2>6, ApplyInv
  <2>7. CASE ApplyFail(c)
    BY <1>2, <2>0, <2>7, PcStep DEF ApplyFail, ClientPC
  <2>8. CASE Eof(c)
    BY <1>2, <2>0, <2>8, LeaveInv DEF Eof
  <2>9. CASE ReadError(c)
    BY <1>2, <2>0, <2>9, LeaveInv DEF ReadError
  <2>10. CASE ClientCrash(c)
    BY <1>2, <2>0, <2>10, LeaveInv DEF ClientCrash
  <2> QED BY <2>1, <2>2, <2>3, <2>4, <2>5, <2>6, <2>7, <2>8, <2>9, <2>10 DEF ClientStep
<1>3. CASE Network /\ UNCHANGED <<serverVars, clientVars>>
  <2>1. ASSUME NEW k \in Conn, GiveUp(k) PROVE IInv'
    BY <1>3, <2>1, GiveUpInv
  <2>2. ASSUME NEW k \in Conn, NEW n \in 0..Buffer, Sever(k, n) PROVE IInv'
    <3>1. {k} \in SUBSET Severable /\ n \in Nat
      BY <2>2, TcpAssumption DEF Sever
    <3>2. faults' \in 0..MaxFaults
      BY <2>2, TcpAssumption DEF Sever, Fault, IInv, TypeOK, TcpTypeOK
    <3>3. nic' \in IPs \cup {NoIp} /\ UNCHANGED <<lastIp, announced, spc, clients, todo>>
      BY <1>3 DEF serverVars, IInv, TypeOK, ServerTypeOK
    <3> QED BY <1>3, <2>2, <3>1, <3>2, <3>3, SeverAllInv DEF Sever
  <2> QED BY <1>3, <2>1, <2>2 DEF Network
<1>4. CASE UNCHANGED vars
  <2> USE <1>4 DEF vars, tcpVars, serverVars, clientVars
  <2>1. TypeOK'
    BY DEF IInv, TypeOK, TcpTypeOK, ServerTypeOK, ClientTypeOK
  <2>2. ListOK'
    BY DEF IInv, ListOK, Registered
  <2>3. EndsOK'
    BY DEF IInv, EndsOK, ConnOK, Held, Registered
  <2>4. ASSUME NEW c \in Clients PROVE ClientOK(c)'
    <3>1. Written(Current(c))' = Written(Current(c)) /\ Written(Current(c)) \in Nat
      BY WrittenType DEF IInv, ListOK, Written, Current
    <3>2. HostsOK(c)' /\ (sock'[c] # 0 => ChanOK(c)' /\ MsgOK(c)')
      BY <3>1, Frame
    <3>3. TailOK(c)'
      BY <3>1, FrameTail DEF Registered
    <3> QED BY <3>2, <3>3 DEF ClientOK
  <2> QED BY <2>1, <2>2, <2>3, <2>4 DEF IInv
<1> QED BY <1>1, <1>2, <1>3, <1>4 DEF Next

\* The inductive invariant holds in every reachable state: broadcast's two
\* lists, the two ends of every connection and the lines in flight agree.
THEOREM Invariance == Spec => []IInv
<1>1. Init => IInv
  BY InitInv
<1>2. IInv /\ [Next]_vars => IInv'
  BY NextInv
<1> QED BY <1>1, <1>2, PTL DEF Spec

\* Every variable keeps its type.
THEOREM TypeCorrect == Spec => []TypeOK
<1>1. IInv => TypeOK
  BY DEF IInv
<1> QED BY <1>1, Invariance, PTL

-----------------------------------------------------------------------------
(***************************************************************************)
(* What follows from the invariant.                                        *)
(***************************************************************************)

\* A client's stream is its channel, with the message it has in hand before.
LEMMA StreamFacts ==
  ASSUME IInv, NEW c \in Clients, sock[c] # 0
  PROVE  LET s == chan[Current(c)] IN
         /\ Len(s) \in Nat
         /\ msg[c] = NoMessage => Stream(c) = s
         /\ msg[c] # NoMessage =>
              /\ Len(Stream(c)) = Len(s) + 1 /\ Stream(c)[1] = msg[c]
              /\ \A i \in 1..Len(s) : Stream(c)[i + 1] = s[i]
<1>1. PICK s : s = chan[Current(c)]
  OBVIOUS
<1>2. s \in Seq(Line) /\ Len(s) \in Nat
  BY <1>1, ClientTypes DEF IInv
<1>3. ASSUME msg[c] # NoMessage
      PROVE  /\ Len(Stream(c)) = Len(s) + 1 /\ Stream(c)[1] = msg[c]
             /\ \A i \in 1..Len(s) : Stream(c)[i + 1] = s[i]
  <2>1. msg[c] \in Line
    BY <1>3 DEF IInv, TypeOK, ClientTypeOK
  <2>2. <<msg[c]>> \in Seq(Line) /\ Len(<<msg[c]>>) = 1 /\ <<msg[c]>>[1] = msg[c]
    BY <2>1
  <2>3. Stream(c) = <<msg[c]>> \o s
    BY <1>1, <1>3 DEF Stream
  <2> QED BY <1>2, <2>2, <2>3, ConcatProperties
<1> QED BY <1>1, <1>2, <1>3 DEF Stream

\* On one connection no announcement is missed, whoever else is dropped or
\* severed, and however many heartbeats come in between.
THEOREM NothingMissed == Spec => []NoGap
<1>1. ASSUME IInv PROVE NoGap
  <2> SUFFICES ASSUME NEW c \in Clients, sock[c] # 0, NEW i \in 1..Len(Stream(c)) - 1
               PROVE  Follows(Stream(c)[i], Stream(c)[i + 1])
    BY DEF NoGap
  <2>1. PICK s : s = chan[Current(c)]
    OBVIOUS
  <2>2. ChanOK(c) /\ MsgOK(c) /\ Len(s) \in Nat
    BY <1>1, <2>1, StreamFacts DEF IInv, ClientOK
  <2>3. CASE msg[c] = NoMessage
    BY <1>1, <2>1, <2>2, <2>3, StreamFacts DEF ChanOK
  <2>4. CASE msg[c] # NoMessage
    <3>1. /\ Len(Stream(c)) = Len(s) + 1 /\ Stream(c)[1] = msg[c]
          /\ \A j \in 1..Len(s) : Stream(c)[j + 1] = s[j]
      BY <1>1, <2>1, <2>4, StreamFacts
    <3>2. i \in 1..Len(s)
      BY <2>2, <3>1
    <3>3. CASE i = 1
      BY <2>1, <2>2, <2>4, <3>1, <3>2, <3>3, EmptySeq DEF MsgOK
    <3>4. CASE i # 1
      <4>1. i - 1 \in 1..Len(s) - 1 /\ i - 1 \in 1..Len(s) /\ (i - 1) + 1 = i
        BY <2>2, <3>2, <3>4
      <4>2. Stream(c)[i] = s[i - 1] /\ Stream(c)[i + 1] = s[i]
        BY <3>1, <3>2, <4>1
      <4>3. Follows(s[i - 1], s[(i - 1) + 1])
        BY <2>1, <2>2, <4>1 DEF ChanOK
      <4> QED BY <4>1, <4>2, <4>3
    <3> QED BY <3>3, <3>4
  <2> QED BY <2>3, <2>4
<1> QED BY <1>1, Invariance, PTL

\* A registered connection that carries everything written to it ends with the
\* newest announcement, or with the one before while broadcast still owes it.
THEOREM NobodyIsForgotten == Spec => []NobodyForgotten
<1>1. ASSUME IInv PROVE NobodyForgotten
  <2> SUFFICES ASSUME NEW c \in Clients, Current(c) \in Registered,
                      stuck[Current(c)] = 0, Stream(c) # <<>>
               PROVE  Stream(c)[Len(Stream(c))].ver = Written(Current(c))
    BY DEF NobodyForgotten
  <2>1. sock[c] # 0 /\ TailOK(c)
    BY <1>1, RegisteredConn, CurrentHeld DEF IInv, ClientOK
  <2>2. PICK s : s = chan[Current(c)]
    OBVIOUS
  <2>3. s \in Seq(Line) /\ Len(s) \in Nat /\ (s = <<>> <=> Len(s) = 0)
    BY <1>1, <2>1, <2>2, ClientTypes, EmptySeq DEF IInv
  <2>4. CASE msg[c] = NoMessage
    BY <1>1, <2>1, <2>2, <2>4, StreamFacts DEF TailOK
  <2>5. CASE msg[c] # NoMessage
    <3>1. /\ Len(Stream(c)) = Len(s) + 1 /\ Stream(c)[1] = msg[c]
          /\ \A j \in 1..Len(s) : Stream(c)[j + 1] = s[j]
      BY <1>1, <2>1, <2>2, <2>5, StreamFacts
    <3>2. CASE s = <<>>
      BY <2>1, <2>2, <2>3, <2>5, <3>1, <3>2 DEF TailOK
    <3>3. CASE s # <<>>
      <4>1. Stream(c)[Len(s) + 1] = s[Len(s)]
        BY <2>3, <3>1, <3>3
      <4> QED BY <2>1, <2>2, <3>1, <3>3, <4>1 DEF TailOK
    <3> QED BY <3>2, <3>3
  <2> QED BY <2>4, <2>5
<1> QED BY <1>1, Invariance, PTL

\* What a client has yet to apply is news to its hosts file, whatever
\* connection and whatever failure it comes after.
THEOREM OnlyNewsArrives == Spec => []OnlyNews
<1>1. ASSUME IInv PROVE OnlyNews
  <2>1. ASSUME NEW c \in Clients
        PROVE  /\ cpc[c] = "apply" => msg[c].ver > hosts[c].ver
               /\ sock[c] # 0 => \A i \in 1..Len(chan[Current(c)]) :
                    chan[Current(c)][i].type = "ip_update" =>
                      chan[Current(c)][i].ver > hosts[c].ver
    BY <1>1 DEF IInv, ClientOK, HostsOK, ChanOK
  <2> QED BY <2>1 DEF OnlyNews
<1> QED BY <1>1, Invariance, PTL

\* Whatever fails, the hosts files follow the log of announced addresses: a
\* step of the system is a step of module Replication, or none.
THEOREM Implements == Spec => Replicates
<1>1. Init => Abstract!RepInit
  BY DEF Init, ServerInit, ClientInit, Abstract!RepInit
<1>2. ASSUME IInv, [Next]_vars PROVE [Abstract!RepNext]_(Abstract!repVars)
  <2>0. SUFFICES ASSUME ~UNCHANGED <<announced, hosts>> PROVE Abstract!RepNext
    BY DEF Abstract!repVars
  <2> USE DEF Fault
  <2>1. CASE ServerNext /\ UNCHANGED clientVars
    <3>1. UNCHANGED hosts
      BY <2>1 DEF clientVars
    <3>2. CASE DetectChanged
      <4>1. nic \in IPs /\ announced' = Append(announced, nic)
        BY <1>2, <3>2 DEF DetectChanged, IInv, TypeOK, ServerTypeOK
      <4> QED BY <3>1, <4>1 DEF Abstract!RepNext, Abstract!Publish
    <3>3. CASE ~DetectChanged
      <4>1. UNCHANGED announced
        BY <2>1, <3>3 DEF ServerNext, MainThread, DetectNothing, StartBroadcast, SendLine, Drop,
           EndBroadcast, AcceptThread, Register, RejectClone, ServerCrash, ServerStart,
           NicChange, serverVars
      <4> QED BY <2>0, <3>1, <4>1
    <3> QED BY <3>2, <3>3
  <2>2. CASE ClientNext /\ UNCHANGED serverVars
    <3>1. UNCHANGED announced
      BY <2>2 DEF serverVars
    <3>2. PICK c \in Clients : ClientStep(c) \/ ClientCrash(c)
      BY <2>2 DEF ClientNext
    <3>3. CASE Apply(c)
      <4>1. HostsOK(c) /\ MsgOK(c) /\ cpc[c] = "apply"
        BY <1>2, <3>3 DEF Apply, IInv, ClientOK, EndsOK
      <4>2. PICK v : v = msg[c].ver
        OBVIOUS
      <4>3. v > hosts[c].ver /\ v \in DOMAIN announced /\ msg[c].ip = announced[v]
        BY <4>1, <4>2 DEF HostsOK, MsgOK, Truthful, NoMessage
      <4>4. hosts' = [hosts EXCEPT ![c] = [ip |-> announced[v], ver |-> v]]
        BY <3>3, <4>2, <4>3 DEF Apply
      <4>5. Abstract!Deliver(c, v)
        BY <3>1, <4>3, <4>4 DEF Abstract!Deliver
      <4> QED BY <4>3, <4>5 DEF Abstract!RepNext
    <3>4. CASE ~Apply(c)
      <4>1. UNCHANGED hosts
        BY <3>2, <3>4 DEF ClientStep, Connect, ConnectFail, Wake, ReadLine, ApplyFail,
           Eof, ReadError, ClientCrash, Leave
      <4> QED BY <2>0, <3>1, <4>1
    <3> QED BY <3>3, <3>4
  <2>3. CASE Network /\ UNCHANGED <<serverVars, clientVars>>
    BY <2>0, <2>3 DEF serverVars, clientVars
  <2>4. CASE UNCHANGED vars
    BY <2>0, <2>4 DEF vars, serverVars, clientVars
  <2> QED BY <1>2, <2>1, <2>2, <2>3, <2>4 DEF Next
<1> QED BY <1>1, <1>2, Invariance, PTL DEF Spec, Replicates, Abstract!RepSpec

\* Module ReplicationProofs, of the addresses announced and the hosts files.
Log == INSTANCE ReplicationProofs WITH log <- announced, replica <- hosts

\* Whatever fails, a hosts file shows no address but one that was announced, and
\* is never set back to an earlier one.
THEOREM NeverSetBack == Spec => []Abstract!Consistent /\ Abstract!Forward
<1>1. Replicates => []Log!RepInv
  BY Log!ShowsTheLog DEF Replicates, Abstract!RepSpec, Abstract!RepInit, Abstract!RepNext,
     Abstract!Publish, Abstract!Deliver, Abstract!repVars, Log!RepSpec, Log!RepInit,
     Log!RepNext, Log!Publish, Log!Deliver, Log!repVars
<1>2. Replicates => Abstract!Forward
  BY Log!GoesForward DEF Replicates, Abstract!RepSpec, Abstract!RepInit, Abstract!RepNext,
     Abstract!Publish, Abstract!Deliver, Abstract!repVars, Log!RepSpec, Log!RepInit,
     Log!RepNext, Log!Publish, Log!Deliver, Log!repVars, Abstract!Forward, Log!Forward
<1>3. Log!RepInv => Abstract!Consistent
  BY DEF Log!RepInv, Log!Consistent, Abstract!Consistent
<1> QED BY <1>1, <1>2, <1>3, Implements, PTL

-----------------------------------------------------------------------------
(***************************************************************************)
(* Who is taken off the list.                                              *)
(***************************************************************************)

\* A connection that the server's kernel has given up is one it still has an
\* end of, and that no client holds the other end of, or holds in vain.
ResetOK == \A k \in reset : k \in serverEnd /\ (~Held(k) \/ k \in cut)

\* Every step of Next keeps ResetOK.
LEMMA ResetNext ==
  ASSUME IInv, ResetOK, [Next]_vars PROVE ResetOK'
<1> USE DEF Fault
<1>0. reset \in SUBSET Conn /\ sock \in [Clients -> 0..MaxConns] /\ EndsOK
  BY DEF IInv, TypeOK, TcpTypeOK
<1>1. ASSUME NEW S, CloseServer(S), UNCHANGED <<sock, cut>> PROVE ResetOK'
  BY <1>1 DEF CloseServer, ResetOK, Held
<1>2. ASSUME NEW c \in Clients, CloseClient(c), UNCHANGED <<serverEnd, reset>> PROVE ResetOK'
  <2> SUFFICES ASSUME NEW k \in reset PROVE k \in serverEnd' /\ (~Held(k)' \/ k \in cut')
    BY <1>2 DEF ResetOK
  <2>1. k \in serverEnd /\ (~Held(k) \/ k \in cut) /\ k \in Conn
    BY <1>0 DEF ResetOK
  <2>2. k[1] \in Clients /\ k[2] \in 1..MaxConns /\ k = <<k[1], k[2]>>
    BY <2>1, ConnPair
  <2>3. sock' = [sock EXCEPT ![c] = 0] /\ cut' = cut \ {Current(c)}
    BY <1>2 DEF CloseClient
  <2>4. CASE k[1] = c
    BY <1>0, <1>2, <2>1, <2>2, <2>3, <2>4 DEF Held
  <2>5. CASE k[1] # c
    <3>1. Held(k)' = Held(k) /\ k # Current(c)
      BY <1>0, <2>2, <2>3, <2>5 DEF Held, Current
    <3> QED BY <1>2, <2>1, <2>3, <3>1
  <2> QED BY <2>4, <2>5
<1>3. ASSUME NEW c \in Clients, NEW k \in Conn, Connect(c, k) PROVE ResetOK'
  <2>1. k \notin serverEnd /\ sock[k[1]] = 0
    BY <1>0, <1>3 DEF Connect, Open, Free, EndsOK
  <2>2. /\ serverEnd' = serverEnd \cup {k} /\ sock' = [sock EXCEPT ![k[1]] = k[2]]
        /\ UNCHANGED <<reset, cut>>
    BY <1>3 DEF Connect, Open
  <2> SUFFICES ASSUME NEW j \in reset PROVE j \in serverEnd' /\ (~Held(j)' \/ j \in cut')
    BY <2>2 DEF ResetOK
  <2>3. j \in serverEnd /\ (~Held(j) \/ j \in cut) /\ j \in Conn /\ j # k
    BY <1>0, <2>1 DEF ResetOK
  <2>4. /\ j[1] \in Clients /\ j[2] \in 1..MaxConns /\ j = <<j[1], j[2]>>
        /\ k[1] \in Clients /\ k[2] \in 1..MaxConns /\ k = <<k[1], k[2]>>
    BY <2>3, ConnPair
  <2>5. CASE j[1] = k[1]
    BY <1>0, <2>2, <2>3, <2>4, <2>5 DEF Held
  <2>6. CASE j[1] # k[1]
    BY <1>0, <2>2, <2>3, <2>4, <2>6 DEF Held
  <2> QED BY <2>5, <2>6
<1>4. ASSUME NEW k \in Conn, GiveUp(k) PROVE ResetOK'
  <2>1. stuck[k] > 0 => (~Held(k) \/ k \in cut)
    BY <1>0 DEF EndsOK, ConnOK
  <2> QED BY <1>4, <2>1 DEF GiveUp, ResetOK, Held
<1>5. ASSUME NEW S, NEW n, SeverAll(S, n), UNCHANGED <<serverEnd, sock, reset>> PROVE ResetOK'
  BY <1>5 DEF SeverAll, ResetOK, Held
<1>6. CASE UNCHANGED <<serverEnd, sock, cut, reset>>
  BY <1>6 DEF ResetOK, Held
<1>7. CASE ServerNext /\ UNCHANGED clientVars
  BY <1>1, <1>5, <1>6, <1>7 DEF ServerNext, MainThread, DetectChanged, DetectNothing,
     StartBroadcast, SendLine, Drop, EndBroadcast, AcceptThread, Register, RejectClone,
     ServerCrash, ServerStart, NicChange, tcpVars, Write
<1>8. CASE ClientNext /\ UNCHANGED serverVars
  <2>1. PICK c \in Clients : ClientStep(c) \/ ClientCrash(c)
    BY <1>8 DEF ClientNext
  <2>2. CASE \E k \in Conn : Connect(c, k)
    BY <1>3, <2>2
  <2>3. CASE Eof(c) \/ ReadError(c) \/ ClientCrash(c)
    BY <1>2, <2>3 DEF Eof, ReadError, ClientCrash, Leave
  <2>4. CASE ConnectFail(c) \/ Wake(c) \/ ReadLine(c) \/ Apply(c) \/ ApplyFail(c)
    BY <1>6, <2>4 DEF ConnectFail, Wake, ReadLine, Apply, ApplyFail, tcpVars
  <2> QED BY <2>1, <2>2, <2>3, <2>4 DEF ClientStep
<1>9. CASE Network /\ UNCHANGED <<serverVars, clientVars>>
  BY <1>4, <1>5, <1>9 DEF Network, Sever
<1>10. CASE UNCHANGED vars
  BY <1>6, <1>10 DEF vars, tcpVars
<1> QED BY <1>7, <1>8, <1>9, <1>10 DEF Next

\* While it runs, the server never takes a client off its list whose connection
\* works, however slowly it reads.
THEOREM LiveStay == Spec => LiveKept
<1>1. Init => ResetOK
  BY DEF Init, TcpInit, ResetOK
<1>2. IInv /\ ResetOK /\ [Next]_vars => ResetOK'
  BY ResetNext
<1>3. ASSUME IInv, ResetOK, [Next]_vars
      PROVE  \A k \in Registered \ cut : (Held(k) /\ listening') => k \in Registered'
  <2> SUFFICES ASSUME NEW k \in Registered \ cut, Held(k), listening' PROVE k \in Registered'
    OBVIOUS
  <2>0. clients \in Seq(Conn) /\ todo \in Seq(Conn) /\ ListOK
    BY <1>3 DEF IInv, TypeOK, ServerTypeOK
  <2>1. CASE Drop
    <3>1. Range(Tail(todo)) = Range(todo) \ {Head(todo)}
      BY <1>3, <2>1, TakeFacts DEF Drop
    <3>2. k # Head(todo)
      BY <1>3, <2>1 DEF Drop, ResetOK
    <3> QED BY <2>1, <3>1, <3>2 DEF Drop, Registered
  <2>2. CASE StartBroadcast
    BY <2>0, <2>2, EmptySeq DEF StartBroadcast, Registered, ListOK, Range
  <2>3. CASE SendLine
    <3>1. /\ Range(Tail(todo)) = Range(todo) \ {Head(todo)}
          /\ Range(Append(clients, Head(todo))) = Range(clients) \cup {Head(todo)}
      BY <1>3, <2>3, TakeFacts DEF SendLine
    <3> QED BY <2>3, <3>1 DEF SendLine, Registered
  <2>4. CASE \E j \in Conn : Register(j)
    BY <2>0, <2>4, RangeAppend DEF Register, Registered
  <2>5. CASE UNCHANGED <<clients, todo>>
    BY <2>5 DEF Registered
  <2> QED BY <1>3, <2>1, <2>2, <2>3, <2>4, <2>5
          DEF Next, ServerNext, MainThread, DetectChanged, DetectNothing, EndBroadcast,
              AcceptThread, RejectClone, ServerCrash, ServerStart, NicChange, vars, serverVars
<1> QED BY <1>1, <1>2, <1>3, Invariance, PTL DEF Spec, LiveKept
=============================================================================
