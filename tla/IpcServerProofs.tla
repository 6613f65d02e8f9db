-------------------------- MODULE IpcServerProofs ---------------------------
(***************************************************************************)
(* The session table and the shutdown of the IPC service, for any number   *)
(* of sessions and any limit: the table is what the server has open, no    *)
(* client is turned away, no handler runs on a deleted clock manager.      *)
(***************************************************************************)
EXTENDS IpcServer, TLAPS, SequenceTheorems, FiniteSetTheorems

Distinct(seq) == \A i, j \in DOMAIN seq : seq[i] = seq[j] => i = j

-----------------------------------------------------------------------------
(* Tables without repetitions.                                             *)

(* Append keeps a table distinct when the element is new.                  *)
LEMMA AppendDistinct ==
    ASSUME NEW S, NEW seq \in Seq(S), NEW x \in S, Distinct(seq), x \notin Elements(seq)
    PROVE  /\ Append(seq, x) \in Seq(S)
           /\ Distinct(Append(seq, x))
           /\ Elements(Append(seq, x)) = Elements(seq) \cup {x}
<1> DEFINE app == Append(seq, x)
<1>1. /\ app \in Seq(S) /\ Len(app) = Len(seq) + 1
      /\ \A i \in 1..Len(seq) : app[i] = seq[i]
      /\ app[Len(seq) + 1] = x
  BY AppendProperties
<1>2. /\ Len(seq) \in Nat /\ DOMAIN seq = 1..Len(seq)
      /\ DOMAIN app = 1..(Len(seq) + 1)
  BY <1>1, LenProperties
<1>3. \A i \in DOMAIN app : i \in DOMAIN seq \/ i = Len(seq) + 1
  BY <1>2
<1>4. DOMAIN seq \subseteq DOMAIN app /\ Len(seq) + 1 \in DOMAIN app
  BY <1>2
<1> HIDE DEF app
<1>5. Elements(app) = Elements(seq) \cup {x}
  BY <1>1, <1>2, <1>3, <1>4 DEF Elements
<1>6. Distinct(app)
  BY <1>1, <1>2, <1>3 DEF Distinct, Elements
<1> QED
  BY <1>1, <1>5, <1>6 DEF app

(* Head and Tail of a distinct queue.                                      *)
LEMMA TailDistinct ==
    ASSUME NEW S, NEW seq \in Seq(S), seq # <<>>, Distinct(seq)
    PROVE  /\ Head(seq) \in S
           /\ Tail(seq) \in Seq(S)
           /\ Distinct(Tail(seq))
           /\ Head(seq) \notin Elements(Tail(seq))
           /\ Elements(seq) = Elements(Tail(seq)) \cup {Head(seq)}
<1> DEFINE tail == Tail(seq)
<1>1. /\ Head(seq) \in S /\ tail \in Seq(S) /\ Len(tail) = Len(seq) - 1
      /\ \A i \in 1..Len(tail) : tail[i] = seq[i + 1]
  BY HeadTailProperties
<1>2. /\ Len(seq) \in Nat \ {0} /\ DOMAIN seq = 1..Len(seq)
      /\ DOMAIN tail = 1..(Len(seq) - 1)
  BY <1>1, LenProperties, EmptySeq
<1>3. Head(seq) = seq[1]
  OBVIOUS
<1>4. \A i \in DOMAIN tail : i + 1 \in DOMAIN seq /\ i + 1 # 1 /\ tail[i] = seq[i + 1]
  BY <1>1, <1>2
<1>5. \A i \in DOMAIN seq : i = 1 \/ (i - 1 \in DOMAIN tail /\ tail[i - 1] = seq[i])
  <2> TAKE i \in DOMAIN seq
  <2>1. i \in Nat \ {0} /\ (i # 1 => i - 1 \in DOMAIN tail /\ (i - 1) + 1 = i)
    BY <1>2
  <2> QED
    BY <1>1, <1>2, <2>1
<1>6. 1 \in DOMAIN seq
  BY <1>2
<1> HIDE DEF tail
<1>7. Elements(seq) = Elements(tail) \cup {Head(seq)}
  BY <1>3, <1>4, <1>5, <1>6 DEF Elements
<1>8. Head(seq) \notin Elements(tail)
  BY <1>3, <1>4, <1>6 DEF Elements, Distinct
<1>9. Distinct(tail)
  BY <1>2, <1>4 DEF Distinct
<1> QED
  BY <1>1, <1>7, <1>8, <1>9 DEF tail

(* Remove takes one handle out of the table and nothing else.              *)
LEMMA RemoveDistinct ==
    ASSUME handles \in Seq(Sessions), Distinct(handles), NEW k \in DOMAIN handles
    PROVE  /\ Remove(k) \in Seq(Sessions)
           /\ Distinct(Remove(k))
           /\ Elements(Remove(k)) = Elements(handles) \ {handles[k]}
<1> DEFINE n    == Len(handles)
           low  == SubSeq(handles, 1, k - 1)
           high == SubSeq(handles, k + 1, n)
           rest == low \o high
           from(i) == IF i < k THEN i ELSE i + 1
<1>1. n \in Nat /\ k \in 1..n /\ DOMAIN handles = 1..n /\ \A i \in 1..n : handles[i] \in Sessions
  BY LenProperties
<1>2. /\ low \in Seq(Sessions) /\ Len(low) = k - 1
      /\ \A i \in 1..(k - 1) : low[i] = handles[i]
  <2>1. \A i \in 1..(k - 1) : handles[i] \in Sessions
    BY <1>1
  <2> QED
    BY <1>1, <2>1, SubSeqProperties
<1>3. /\ high \in Seq(Sessions) /\ Len(high) = n - k
      /\ \A i \in 1..(n - k) : high[i] = handles[k + i]
  <2>1. \A i \in (k + 1)..n : handles[i] \in Sessions
    BY <1>1
  <2> QED
    BY <1>1, <2>1, SubSeqProperties
<1>4. /\ rest \in Seq(Sessions) /\ Len(rest) = n - 1
      /\ \A i \in 1..(n - 1) : rest[i] = IF i <= k - 1 THEN low[i] ELSE high[i - (k - 1)]
  <2>1. Len(low) + Len(high) = n - 1
    BY <1>1, <1>2, <1>3
  <2> HIDE DEF low, high, n
  <2>2. /\ rest \in Seq(Sessions)
        /\ Len(rest) = Len(low) + Len(high)
        /\ \A i \in 1..(Len(low) + Len(high)) :
              rest[i] = IF i <= Len(low) THEN low[i] ELSE high[i - Len(low)]
    BY <1>2, <1>3, ConcatProperties
  <2> HIDE DEF rest
  <2> QED
    BY <1>2, <2>1, <2>2
<1>5. DOMAIN rest = 1..(n - 1)
  BY <1>4, LenProperties
<1> HIDE DEF low, high, n, rest
<1>6. \A i \in 1..(n - 1) : from(i) \in 1..n /\ from(i) # k /\ rest[i] = handles[from(i)]
  <2> TAKE i \in 1..(n - 1)
  <2>1. CASE i < k
    <3>1. i \in 1..(k - 1) /\ i <= k - 1
      BY <1>1, <2>1
    <3> QED
      BY <1>1, <1>2, <1>4, <2>1, <3>1
  <2>2. CASE ~(i < k)
    <3>1. i - (k - 1) \in 1..(n - k) /\ ~(i <= k - 1) /\ k + (i - (k - 1)) = i + 1
      BY <1>1, <2>2
    <3>2. rest[i] = high[i - (k - 1)]
      BY <1>4, <3>1
    <3>3. high[i - (k - 1)] = handles[i + 1]
      BY <1>3, <3>1
    <3>4. from(i) = i + 1 /\ i + 1 \in 1..n /\ i + 1 # k
      BY <1>1, <2>2
    <3> QED
      BY <3>2, <3>3, <3>4
  <2> QED
    BY <2>1, <2>2
<1>7. \A i \in 1..n : i = k \/ \E j \in 1..(n - 1) : from(j) = i
  <2> TAKE i \in 1..n
  <2>1. CASE i < k
    BY <1>1, <2>1
  <2>2. CASE i > k
    <3>1. i - 1 \in 1..(n - 1) /\ from(i - 1) = i
      BY <1>1, <2>2
    <3> QED
      BY <3>1
  <2> QED
    BY <1>1, <2>1, <2>2
<1>8. \A i, j \in 1..(n - 1) : from(i) = from(j) => i = j
  BY <1>1
<1> HIDE DEF from
<1>9. Elements(rest) = Elements(handles) \ {handles[k]}
  <2>1. \A x \in Elements(rest) : x \in Elements(handles) \ {handles[k]}
    BY <1>1, <1>5, <1>6 DEF Elements, Distinct
  <2>2. \A x \in Elements(handles) \ {handles[k]} : x \in Elements(rest)
    <3> TAKE x \in Elements(handles) \ {handles[k]}
    <3>1. PICK i \in 1..n : x = handles[i] /\ i # k
      BY <1>1 DEF Elements
    <3>2. PICK j \in 1..(n - 1) : from(j) = i
      BY <1>7, <3>1
    <3> QED
      BY <1>5, <1>6, <3>1, <3>2 DEF Elements
  <2> QED
    BY <2>1, <2>2
<1>10. Distinct(rest)
  BY <1>1, <1>5, <1>6, <1>8 DEF Distinct
<1>11. Remove(k) = rest
  BY DEF Remove, rest, low, high, n
<1> QED
  BY <1>4, <1>9, <1>10, <1>11

-----------------------------------------------------------------------------
(* The inductive invariant.                                                *)

(* The port's queue, the table and the session being added share nothing.  *)
TableInv ==
    /\ TableIsOpen
    /\ (session # "none") <=> (pc = "add")
    /\ pc = "add" => session \in serverOpen
    /\ Distinct(connecting)
    /\ Elements(connecting) \cap serverOpen = {}

(* What the IPC thread was woken for is still there when it looks.         *)
WokenInv ==
    /\ pc = "accept" => connecting # <<>>
    /\ pc \in {"receive", "reply", "closing"} => handleIndex \in DOMAIN handles

(* The limit of the port.                                                  *)
LimitInv == Cardinality(Existing) <= max_sessions

ShutdownInv ==
    /\ main = "starting" <=> pc = "unstarted"
    /\ main \in {"freeing", "deleted"} => pc = "returned"
    /\ main = "deleted" => serverOpen = {} /\ ~portOpen

ServiceInv == TypeOK /\ TableInv /\ WokenInv /\ LimitInv /\ ShutdownInv

LEMMA ExistingFinite ==
    ASSUME TypeOK
    PROVE  /\ Existing \subseteq Sessions /\ IsFiniteSet(Existing)
           /\ Cardinality(Existing) \in Nat
<1>1. \A i \in DOMAIN connecting : connecting[i] \in Sessions
  BY LenProperties DEF TypeOK
<1>2. Existing \subseteq Sessions
  BY <1>1 DEF TypeOK, Existing, Elements
<1> QED
  BY <1>2, SessionsAssumption, FS_Subset, FS_CardinalityType

(* No step but Connect adds to the sessions the port has let in.           *)
LEMMA LimitKept ==
    ASSUME TypeOK, LimitInv, Existing' \subseteq Existing
    PROVE  LimitInv'
<1>1. /\ IsFiniteSet(Existing') /\ Cardinality(Existing') <= Cardinality(Existing)
      /\ Cardinality(Existing') \in Nat
  BY ExistingFinite, FS_Subset, FS_CardinalityType
<1> QED
  BY <1>1, ExistingFinite, SessionsAssumption DEF LimitInv

LEMMA InitServiceInv == Init => ServiceInv
<1> SUFFICES ASSUME Init PROVE ServiceInv
  OBVIOUS
<1>1. <<>> \in Seq(Sessions) /\ DOMAIN <<>> = {}
  BY EmptySeq
<1>2. Elements(<<>>) = {} /\ Distinct(<<>>)
  BY <1>1 DEF Elements, Distinct
<1>3. TypeOK
  BY <1>1 DEF Init, TypeOK, PCs, MainPCs, Requests
<1>4. TableInv
  BY <1>2 DEF Init, TableInv, TableIsOpen, Distinct
<1>5. LimitInv
  BY <1>2, FS_EmptySet, SessionsAssumption DEF Init, LimitInv, Existing
<1> QED
  BY <1>3, <1>4, <1>5 DEF Init, ServiceInv, WokenInv, ShutdownInv

(* The steps of the IPC thread.                                            *)
LEMMA IpcServiceInv ==
    ASSUME ServiceInv, IpcThread
    PROVE  ServiceInv'
<1> USE DEF ServiceInv, ShutdownInv
<1>t. TypeOK
  OBVIOUS
<1>1. CASE WaitSynchronization
  <2> USE <1>1 DEF WaitSynchronization, kernelVars, mainVars
  <2>1. handleIndex' \in Ready /\ pc' \in {"accept", "receive"} /\ (pc' = "accept" <=> handleIndex' = 0)
    OBVIOUS
  <2>2. DOMAIN handles \subseteq Nat \ {0}
    BY LenProperties DEF TypeOK
  <2>3. WokenInv' /\ handleIndex' \in Nat
    BY <2>1, <2>2 DEF WokenInv, Ready
  <2>4. TypeOK'
    BY <2>1, <2>3 DEF TypeOK, PCs
  <2>5. TableInv'
    BY DEF TableInv, TableIsOpen, Elements, Distinct
  <2>6. LimitInv'
    BY LimitKept DEF Existing, Elements
  <2> QED
    BY <2>1, <2>3, <2>4, <2>5, <2>6
<1>2. CASE WaitCancelled
  <2> USE <1>2 DEF WaitCancelled, mainVars
  <2>1. TypeOK'
    BY DEF TypeOK, PCs
  <2>2. TableInv'
    BY DEF TableInv, TableIsOpen, Elements, Distinct
  <2>3. LimitInv'
    BY LimitKept DEF Existing, Elements
  <2> QED
    BY <2>1, <2>2, <2>3 DEF WokenInv
<1>3. CASE AcceptSession
  <2> USE <1>3 DEF AcceptSession, mainVars
  <2>1. connecting \in Seq(Sessions) /\ connecting # <<>> /\ Distinct(connecting)
    BY DEF TypeOK, TableInv, WokenInv
  <2>2. /\ Head(connecting) \in Sessions /\ Tail(connecting) \in Seq(Sessions)
        /\ Distinct(Tail(connecting)) /\ Head(connecting) \notin Elements(Tail(connecting))
        /\ Elements(connecting) = Elements(Tail(connecting)) \cup {Head(connecting)}
    BY <2>1, TailDistinct
  <2>3. /\ session' = Head(connecting) /\ connecting' = Tail(connecting)
        /\ serverOpen' = serverOpen \cup {Head(connecting)} /\ session = "none"
        /\ handles' = handles /\ pc' = "add"
    BY DEF TableInv
  <2>4. session' # "none" /\ Head(connecting) \notin serverOpen /\ "none" \notin serverOpen
    BY <2>2, <2>3, SessionsAssumption DEF TableInv, TypeOK
  <2>5. TypeOK'
    BY <2>2, <2>3 DEF TypeOK, PCs
  <2>6. TableInv'
    <3>1. Elements(handles') = serverOpen' \ {session'} /\ session' \notin Elements(handles')
      BY <2>3, <2>4 DEF TableInv, TableIsOpen, Elements
    <3>2. Elements(connecting') \cap serverOpen' = {}
      BY <2>2, <2>3 DEF TableInv
    <3> QED
      BY <2>2, <2>3, <2>4, <3>1, <3>2 DEF TableInv, TableIsOpen
  <2>7. LimitInv'
    <3>1. Existing' \subseteq Existing
      BY <2>2, <2>3 DEF Existing, Elements
    <3> QED
      BY <3>1, LimitKept
  <2> QED
    BY <2>3, <2>5, <2>6, <2>7 DEF WokenInv
<1>4. CASE AddSession
  <2> USE <1>4 DEF AddSession, mainVars
  <2>1. /\ session \in Sessions /\ session \in serverOpen /\ session \notin Elements(handles)
        /\ handles \in Seq(Sessions) /\ Distinct(handles)
        /\ Elements(handles) = serverOpen \ {session}
    BY DEF TableInv, TableIsOpen, TypeOK, Distinct
  <2>2. /\ handles' \in Seq(Sessions) /\ Distinct(handles') /\ Elements(handles') = serverOpen'
        /\ serverOpen' \subseteq serverOpen
    <3>1. CASE TableFull
      BY <2>1, <3>1 DEF Elements, Distinct
    <3>2. CASE ~TableFull
      <4>1. handles' = Append(handles, session) /\ serverOpen' = serverOpen
        BY <3>2
      <4>2. /\ Append(handles, session) \in Seq(Sessions)
            /\ Distinct(Append(handles, session))
            /\ Elements(Append(handles, session)) = Elements(handles) \cup {session}
        BY <2>1, AppendDistinct
      <4> QED
        BY <2>1, <4>1, <4>2
    <3> QED
      BY <3>1, <3>2
  <2>3. "none" \notin serverOpen'
    BY <2>2, SessionsAssumption DEF TypeOK
  <2>4. TypeOK'
    BY <2>2 DEF TypeOK, PCs
  <2>5. TableInv'
    BY <2>2, <2>3 DEF TableInv, TableIsOpen, Distinct, Elements
  <2>6. LimitInv'
    <3>1. Existing' \subseteq Existing
      BY <2>2 DEF Existing, Elements
    <3> QED
      BY <3>1, LimitKept
  <2> QED
    BY <2>4, <2>5, <2>6 DEF WokenInv
<1>5. ASSUME DeleteSession, handleIndex \in DOMAIN handles, pc # "add",
             UNCHANGED <<connecting, clientOpen, session>>
      PROVE  /\ handles' \in Seq(Sessions) /\ serverOpen' \in SUBSET Sessions
             /\ pc' # "add" => TableInv'
             /\ LimitInv'
  <2> USE <1>5 DEF DeleteSession
  <2>1. handles \in Seq(Sessions) /\ Distinct(handles)
    BY DEF TableInv, TableIsOpen, TypeOK, Distinct
  <2>2. /\ handles' \in Seq(Sessions) /\ Distinct(handles')
        /\ Elements(handles') = Elements(handles) \ {handles[handleIndex]}
    BY <2>1, RemoveDistinct
  <2>3. session' = "none" /\ serverOpen' \subseteq serverOpen /\ "none" \notin serverOpen
    BY SessionsAssumption DEF TableInv, TypeOK
  <2>4. Elements(handles') = serverOpen'
    BY <2>2, <2>3 DEF TableInv, TableIsOpen
  <2>5. TableIsOpen'
    BY <2>2, <2>3, <2>4 DEF TableIsOpen, Distinct
  <2>6. Distinct(connecting') /\ Elements(connecting') \cap serverOpen' = {}
    BY <2>3 DEF TableInv
  <2>7. pc' # "add" => TableInv'
    BY <2>3, <2>5, <2>6 DEF TableInv
  <2>8. Existing' \subseteq Existing
    BY <2>3 DEF Existing, Elements
  <2> QED
    BY <2>2, <2>3, <2>7, <2>8, LimitKept DEF TypeOK
<1>6. CASE ReceiveRequest
  <2> USE <1>6 DEF ReceiveRequest
  <2>1. handleIndex \in DOMAIN handles /\ pc = "receive" /\ pc' \in {"wait", "closing", "reply"}
    BY DEF WokenInv
  <2>2. CASE pc' = "wait"
    <3>1. DeleteSession /\ UNCHANGED managerRunning
      BY <2>2
    <3>2. handles' \in Seq(Sessions) /\ serverOpen' \in SUBSET Sessions /\ TableInv' /\ LimitInv'
      BY <1>5, <2>1, <2>2, <3>1
    <3>3. TypeOK'
      BY <2>2, <3>1, <3>2 DEF TypeOK, PCs
    <3> QED
      BY <2>1, <2>2, <3>2, <3>3 DEF WokenInv
  <2>3. CASE pc' # "wait"
    <3>1. UNCHANGED <<serverOpen, handles>> /\ managerRunning' \in BOOLEAN
      BY <2>3 DEF TypeOK
    <3>2. TypeOK'
      BY <2>1, <3>1 DEF TypeOK, PCs
    <3>3. TableInv'
      BY <2>1, <3>1 DEF TableInv, TableIsOpen, Elements, Distinct
    <3>4. LimitInv'
      BY <3>1, LimitKept DEF Existing, Elements
    <3> QED
      BY <2>1, <2>3, <3>1, <3>2, <3>3, <3>4 DEF WokenInv
  <2> QED
    BY <2>2, <2>3
<1>7. CASE Reply
  <2> USE <1>7 DEF Reply, mainVars
  <2>1. /\ handleIndex \in DOMAIN handles /\ pc \in {"reply", "closing"} /\ pc' = "wait"
        /\ message' \in [Sessions -> Requests \cup {"none"}]
        /\ DeleteSession \/ UNCHANGED <<serverOpen, handles>>
    BY DEF WokenInv, TypeOK
  <2>2. CASE DeleteSession
    <3>1. handles' \in Seq(Sessions) /\ serverOpen' \in SUBSET Sessions /\ TableInv' /\ LimitInv'
      BY <1>5, <2>1, <2>2
    <3>2. TypeOK'
      BY <2>1, <3>1 DEF TypeOK, PCs
    <3> QED
      BY <2>1, <3>1, <3>2 DEF WokenInv
  <2>3. CASE UNCHANGED <<serverOpen, handles>>
    <3>1. TypeOK'
      BY <2>1, <2>3 DEF TypeOK, PCs
    <3>2. TableInv'
      BY <2>1, <2>3 DEF TableInv, TableIsOpen, Elements, Distinct
    <3>3. LimitInv'
      BY <2>3, LimitKept DEF Existing, Elements
    <3> QED
      BY <2>1, <3>1, <3>2, <3>3 DEF WokenInv
  <2> QED
    BY <2>1, <2>2, <2>3
<1> QED
  BY <1>1, <1>2, <1>3, <1>4, <1>6, <1>7 DEF IpcThread

(* The steps of the main thread.                                           *)
LEMMA MainServiceInv ==
    ASSUME ServiceInv, MainThread
    PROVE  ServiceInv'
<1> USE DEF ServiceInv, ShutdownInv
<1>1. CASE StartService \/ StopService \/ JoinService
  <2>1. /\ UNCHANGED <<connecting, clientOpen, serverOpen, message, portOpen, handles, handleIndex,
                       session, managerRunning>>
        /\ cancelled' \in BOOLEAN
        /\ \/ pc' = pc
           \/ main = "starting" /\ main' = "ticking" /\ pc' = "wait"
        /\ main' \in MainPCs
    BY <1>1 DEF StartService, StopService, JoinService, kernelVars, threadVars, TypeOK, MainPCs
  <2>2. TypeOK'
    BY <2>1 DEF TypeOK, PCs
  <2>3. TableInv'
    BY <2>1 DEF TableInv, TableIsOpen, Elements, Distinct
  <2>4. LimitInv'
    BY <2>1, LimitKept DEF Existing, Elements
  <2>5. WokenInv'
    BY <2>1 DEF WokenInv
  <2>6. ShutdownInv'
    BY <1>1 DEF StartService, StopService, JoinService, threadVars
  <2> QED
    BY <2>2, <2>3, <2>4, <2>5, <2>6
<1>2. CASE FreeService
  <2> USE <1>2 DEF FreeService, threadVars
  <2>1. pc = "returned" /\ session = "none"
    BY DEF TableInv
  <2>2. Elements(handles) = serverOpen
    BY <2>1, SessionsAssumption DEF TableInv, TableIsOpen, TypeOK
  <2>3. <<>> \in Seq(Sessions) /\ Elements(<<>>) = {} /\ Distinct(<<>>)
    BY EmptySeq DEF Elements, Distinct
  <2>4. connecting' = <<>> /\ handles' = <<>> /\ serverOpen' = {}
    BY <2>2
  <2>5. TypeOK'
    BY <2>3, <2>4 DEF TypeOK, MainPCs
  <2>6. TableInv'
    BY <2>1, <2>3, <2>4 DEF TableInv, TableIsOpen, Distinct
  <2>7. Existing' \subseteq Existing
    BY <2>3, <2>4 DEF Existing
  <2> QED
    BY <2>1, <2>4, <2>5, <2>6, <2>7, LimitKept DEF WokenInv
<1> QED
  BY <1>1, <1>2 DEF MainThread

(* The steps of the clients.                                               *)
LEMMA ClientServiceInv ==
    ASSUME ServiceInv, NEW s \in Sessions,
           Connect(s) \/ Disconnect(s) \/ \E request \in Requests : Send(s, request)
    PROVE  ServiceInv'
<1> USE DEF ServiceInv, ShutdownInv, clientFrame, threadVars, mainVars
<1>1. CASE Connect(s)
  <2> USE <1>1 DEF Connect
  <2>1. /\ connecting \in Seq(Sessions) /\ Distinct(connecting)
        /\ s \notin Elements(connecting) /\ s \notin serverOpen
    BY DEF TypeOK, TableInv, Existing
  <2>2. /\ connecting' = Append(connecting, s)
        /\ UNCHANGED <<serverOpen, handles, session, pc, handleIndex>>
    OBVIOUS
  <2>3. /\ Append(connecting, s) \in Seq(Sessions) /\ Distinct(Append(connecting, s))
        /\ Elements(Append(connecting, s)) = Elements(connecting) \cup {s}
        /\ Append(connecting, s) # <<>>
    BY <2>1, AppendDistinct, AppendProperties
  <2>4. TypeOK'
    BY <2>3 DEF TypeOK
  <2>5. TableInv'
    <3>1. Distinct(connecting') /\ Elements(connecting') \cap serverOpen' = {}
      BY <2>1, <2>2, <2>3 DEF TableInv
    <3> QED
      BY <2>2, <3>1 DEF TableInv, TableIsOpen, Elements
  <2>6. LimitInv'
    <3>1. Existing' = Existing \cup {s}
      BY <2>2, <2>3 DEF Existing
    <3>2. Cardinality(Existing') = Cardinality(Existing) + 1
      BY <3>1, ExistingFinite, FS_AddElement
    <3> QED
      BY <3>2, ExistingFinite, SessionsAssumption DEF LimitInv
  <2> QED
    BY <2>2, <2>3, <2>4, <2>5, <2>6 DEF WokenInv
<1>2. CASE Disconnect(s) \/ \E request \in Requests : Send(s, request)
  <2>1. /\ UNCHANGED <<connecting, clientFrame>>
        /\ clientOpen' \subseteq clientOpen
        /\ message' \in [Sessions -> Requests \cup {"none"}]
    BY <1>2 DEF Disconnect, Send, TypeOK
  <2>2. TypeOK'
    BY <2>1 DEF TypeOK
  <2>3. TableInv'
    BY <2>1 DEF TableInv, TableIsOpen, Elements, Distinct
  <2>4. LimitInv'
    BY <2>1, LimitKept DEF Existing, Elements
  <2> QED
    BY <2>1, <2>2, <2>3, <2>4 DEF WokenInv
<1> QED
  BY <1>1, <1>2

LEMMA NextServiceInv == ServiceInv /\ [Next]_vars => ServiceInv'
<1> SUFFICES ASSUME ServiceInv, [Next]_vars PROVE ServiceInv'
  OBVIOUS
<1>1. CASE UNCHANGED vars
  BY <1>1 DEF vars, kernelVars, threadVars, mainVars, ServiceInv, TypeOK, TableInv, TableIsOpen,
              Elements, Distinct, WokenInv, LimitInv, Existing, ShutdownInv
<1> QED
  BY <1>1, IpcServiceInv, MainServiceInv, ClientServiceInv DEF Next, Service, Clients

LEMMA ServiceInvariance == Spec => []ServiceInv
BY InitServiceInv, NextServiceInv, PTL DEF Spec

(* Every field of the server and every call it is about to make has its    *)
(* type, for any number of sessions.                                       *)
THEOREM ServiceTypeCorrect == Spec => []TypeOK
BY ServiceInvariance, PTL DEF ServiceInv

(* The session table never loses, doubles or keeps a handle, whatever the  *)
(* clients do between the wait and the response.                           *)
THEOREM TableIsOpenHolds == Spec => []TableIsOpen
<1>1. ServiceInv => TableIsOpen
  BY DEF ServiceInv, TableInv
<1> QED
  BY <1>1, ServiceInvariance, PTL

(* When the clock manager is deleted the IPC thread has returned and holds *)
(* no session.                                                             *)
THEOREM NoHandlerAfterDeleteHolds == Spec => []NoHandlerAfterDelete
<1>1. ServiceInv => NoHandlerAfterDelete
  BY DEF ServiceInv, ShutdownInv, NoHandlerAfterDelete
<1> QED
  BY <1>1, ServiceInvariance, PTL

(* The session being added and those of the table are different sessions   *)
(* of the port, so there are fewer handles than the port admits.           *)
LEMMA RoomFromLimit ==
    ASSUME ServiceInv
    PROVE  RoomForSession
<1> SUFFICES ASSUME pc = "add" PROVE ~TableFull
  BY DEF RoomForSession
<1> USE DEF ServiceInv
<1>1. /\ handles \in Seq(Sessions) /\ Len(handles) \in Nat /\ DOMAIN handles = 1..Len(handles)
      /\ session \in serverOpen /\ serverOpen \subseteq Existing
      /\ \A i \in DOMAIN handles : handles[i] \in serverOpen \ {session}
  BY LenProperties DEF TypeOK, TableInv, TableIsOpen, Elements, Existing
<1> DEFINE rest == Existing \ {session}
<1>2. IsFiniteSet(rest) /\ Cardinality(rest) = Cardinality(Existing) - 1
  BY <1>1, ExistingFinite, FS_RemoveElement
<1>3. handles \in Injection(1..Len(handles), rest)
  <2>1. handles \in [1..Len(handles) -> rest]
    BY <1>1, LenProperties
  <2> QED
    BY <1>1, <2>1 DEF Injection, IsInjective, TableInv, TableIsOpen
<1>4. Cardinality(1..Len(handles)) <= Cardinality(rest)
  BY <1>2, <1>3, FS_Injection
<1>5. Cardinality(1..Len(handles)) = Len(handles)
  <2>1. 1 \in Int /\ Len(handles) \in Int /\ Len(handles) >= 0
    BY <1>1
  <2>2. Cardinality(1..Len(handles)) = IF 1 > Len(handles) THEN 0 ELSE Len(handles) - 1 + 1
    BY <2>1, FS_Interval
  <2> QED
    BY <2>1, <2>2
<1> QED
  BY <1>1, <1>2, <1>4, <1>5, ExistingFinite, SessionsAssumption DEF LimitInv, TableFull, max

(* ipcServerInit's limit and the kernel's agree: no client the port admits *)
(* is turned away for want of a table entry.                               *)
THEOREM RoomForSessionHolds == Spec => []RoomForSession
BY RoomFromLimit, ServiceInvariance, PTL
=============================================================================
