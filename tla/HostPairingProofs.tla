------------------------- MODULE HostPairingProofs -------------------------
(***************************************************************************)
(* Host pairing is safe for any Controllers, invitations, lifetimes and    *)
(* limits, however the local user, the task, the service and the           *)
(* Controllers interleave.                                                 *)
(***************************************************************************)
EXTENDS HostPairing, SequenceTheorems, WellFoundedInduction, TLAPS

----------------------------------------------------------------------------
(* What the variables hold.                                                *)

Peers == Controllers \cup {Host}
Phases == {"Creating", "Inviting", "WaitingHello", "WaitingReady", "WaitingDecision"}
Transcripts == {Transcript(c, r) : c \in Controllers, r \in Rids} \cup {None}
Secrets == {PairingKeys(Transcript(c, r)) : c \in Controllers, r \in Rids} \cup {None}
Pairings ==
    [phase : Phases, rid : Rids, kind : Kinds, exp : Int, serverExp : Int, peer : Peers,
     controller : Peers, transcript : Transcripts, key : Secrets]

(* The envelopes the Host seals for rendezvous r.                          *)
Proof(c, r) == Sealed(PairingKeys(Transcript(c, r)), "h2c", 1, r, c, [t |-> "proof"])
Verdict(c, r, status) ==
    Sealed(PairingKeys(Transcript(c, r)), "h2c", 2, r, c,
           [t |-> "decision", status |-> status, transcript |-> Transcript(c, r)])
Seals(r) ==
    {Proof(c, r) : c \in Controllers}
      \cup {Verdict(c, r, status) : c \in Controllers, status \in {"Accepted", "Rejected"}}
Invitation == [t |-> "invitation"]

Relays == UNION {{Relay(r, e) : e \in Seals(r) \cup {Invitation}} : r \in Rids}
Messages ==
    [t : {"create"}, rid : Rids, kind : Kinds, code : BOOLEAN]
      \cup Relays
      \cup [t : {"complete"}, rid : Rids, how : {"Rejected", "Succeeded"}]
Requests == [o : Messages, req : Nat]

Statuses ==
    {"Idle", "Creating", "Inviting", "VerifyingController", "WaitingLocalDecision",
     "Accepted", "Rejected", "Cancelled", "Expired", "Failed"}
Coordinators ==
    [conn : BOOLEAN, status : Statuses, active : Pairings \cup {None},
     terminal : 0..MaxStarts, cancelled : 0..MaxStarts, outbound : Seq(Messages),
     starts : 0..MaxStarts]

(* The envelopes a Controller relays in rendezvous r.                      *)
Greetings(r) ==
    {Hello(c, r, k) : c \in Controllers, k \in Rids} \cup {Ready(c, r) : c \in Controllers}
RoutedFrames ==
    UNION {[t : {"routed"}, rid : {r}, sender : Controllers, envelope : Greetings(r)] : r \in Rids}
FrameTypes ==
    [t : {"created"}, req : Nat, rid : Rids, kind : Kinds, exp : Int]
      \cup [t : {"joined"}, rid : Rids, peer : Controllers, exp : Int]
      \cup RoutedFrames
      \cup [t : {"closed"}, req : Nat, rid : Rids,
            how : {"Rejected", "Succeeded", "Expired", "Disconnected"}]
      \cup [t : {"error"}, req : Int]

Protocols ==
    [phase : {"Creating", "Inviting", "Joined", "Completing"}, rid : Rids, kind : Kinds,
     exp : Int, req : Nat, peer : Peers, how : {"none", "Rejected", "Succeeded"}] \cup {None}
Relayed == {Invitation} \cup UNION {Seals(r) : r \in Rids}
Entries ==
    [state : {"absent", "open", "joined", "gone"}, exp : Int, peer : Peers,
     how : {"none", "Rejected", "Succeeded"}]

Types ==
    /\ link \in {"down", "up", "lost", "ended"} /\ activity \in BOOLEAN
    /\ sp \in Protocols /\ reqs \in Nat /\ toServer \in Seq(Requests)
    /\ toHost \in Seq(FrameTypes) /\ \A m \in late : m.f \in FrameTypes
    /\ srv \in [Rids -> Entries]
    /\ inbox \in [Controllers -> SUBSET (Rids \X Relayed)]
    /\ sent \in Seq(UNION {Greetings(r) : r \in Rids})
    /\ granted \subseteq Controllers \X Rids
    /\ clock \in Nat

(* The limits and names the proofs use.                                    *)
LEMMA Limits ==
    /\ Host \notin Controllers /\ Lifetime \in Nat \ {0} /\ Skew \in 0..(Lifetime - 1)
    /\ MaxStarts \in Nat /\ MaxClock \in Nat
  BY PairingAssumption

(* What a message has by its kind.                                         *)
LEMMA MessageParts ==
    ASSUME NEW m \in Messages
    PROVE  /\ m.rid \in Rids /\ m.t \in {"create", "relay", "complete"}
           /\ m.t = "create" => m.kind \in Kinds
           /\ m.t = "complete" => m.how \in {"Rejected", "Succeeded"}
           /\ m.t = "relay" => m.envelope \in Seals(m.rid) \cup {Invitation}
  <1>1. CASE m \in [t : {"create"}, rid : Rids, kind : Kinds, code : BOOLEAN]
    BY <1>1
  <1>2. CASE m \in Relays
    <2>1. PICK r \in Rids : \E e \in Seals(r) \cup {Invitation} : m = Relay(r, e)
      BY <1>2 DEF Relays
    <2>2. PICK e \in Seals(r) \cup {Invitation} : m = Relay(r, e)
      BY <2>1
    <2>3. m.rid = r /\ m.envelope = e /\ m.t = "relay"
      BY <2>2 DEF Relay
    <2> QED
      BY <2>3
  <1>3. CASE m \in [t : {"complete"}, rid : Rids, how : {"Rejected", "Succeeded"}]
    BY <1>3
  <1> QED
    BY <1>1, <1>2, <1>3 DEF Messages

----------------------------------------------------------------------------
(* Draining the queue.                                                     *)

(* A nonempty set of numbers has a least one.                              *)
LEMMA LeastNumber ==
    ASSUME NEW T \in SUBSET Nat, T # {}
    PROVE  \E n \in T : \A m \in T : n <= m
  <1> DEFINE R == OpToRel(<, Nat)
  <1>1. PICK n \in T : \A m \in T : ~(<<m, n>> \in R)
    BY NatLessThanWellFounded, WFMin
  <1>2. \A m \in T : m \in Nat /\ n \in Nat /\ ~(m < n)
    BY <1>1 DEF OpToRel
  <1> QED
    BY <1>2

(* f lists what Flushed has reached after each message.                    *)
IsRun(f, p, q, out, n) ==
    f = [i \in 0..n |-> IF i = 0 THEN [p |-> p, q |-> q, frames |-> <<>>, ok |-> TRUE]
                        ELSE Offered(f[i - 1], out[i])]

(* There is such a list for any number of messages.                        *)
LEMMA RunExists ==
    ASSUME NEW p, NEW q, NEW out
    PROVE  \A n \in Nat : \E f : IsRun(f, p, q, out, n)
  <1> DEFINE T == {n \in Nat : ~\E f : IsRun(f, p, q, out, n)}
  <1> SUFFICES ASSUME T # {} PROVE FALSE
    OBVIOUS
  <1>1. PICK n \in T : \A m \in T : n <= m
    BY LeastNumber
  <1>2. n # 0
    <2> DEFINE f == [i \in 0..0 |-> [p |-> p, q |-> q, frames |-> <<>>, ok |-> TRUE]]
    <2>1. IsRun(f, p, q, out, 0)
      BY DEF IsRun
    <2> QED
      BY <2>1
  <1>3. n - 1 \in Nat /\ n - 1 \notin T
    BY <1>1, <1>2
  <1>4. PICK f : IsRun(f, p, q, out, n - 1)
    BY <1>3
  <1> DEFINE g == [i \in 0..n |-> IF i = n THEN Offered(f[n - 1], out[n]) ELSE f[i]]
             first == [p |-> p, q |-> q, frames |-> <<>>, ok |-> TRUE]
  <1>5. IsRun(g, p, q, out, n)
    <2>1. \A i \in 0..n - 1 : f[i] = IF i = 0 THEN first ELSE Offered(f[i - 1], out[i])
      BY <1>4 DEF IsRun
    <2>2. n \in Nat /\ \A i \in 0..n : i - 1 \in 0..n - 1 \/ i = 0
      OBVIOUS
    <2> HIDE DEF first
    <2>3. \A i \in 0..n : g[i] = IF i = 0 THEN first ELSE Offered(g[i - 1], out[i])
      BY <1>2, <1>3, <2>1, <2>2
    <2>4. g = [i \in 0..n |-> IF i = 0 THEN first ELSE Offered(g[i - 1], out[i])]
      BY <2>3
    <2> QED
      BY <2>4 DEF IsRun, first
  <1> QED
    BY <1>5

Follows(f, out, n) == \A i \in 1..n : f[i] = Offered(f[i - 1], out[i])

(* Its elements follow one another.                                        *)
LEMMA RunSteps ==
    ASSUME NEW p, NEW q, NEW out, NEW n \in Nat, NEW f, IsRun(f, p, q, out, n)
    PROVE  /\ f[0] = [p |-> p, q |-> q, frames |-> <<>>, ok |-> TRUE]
           /\ Follows(f, out, n)
  <1> DEFINE first == [p |-> p, q |-> q, frames |-> <<>>, ok |-> TRUE]
  <1>1. \A i \in 0..n : f[i] = IF i = 0 THEN first ELSE Offered(f[i - 1], out[i])
    BY DEF IsRun
  <1>2. 0 \in 0..n /\ \A i \in 1..n : i \in 0..n /\ i # 0
    OBVIOUS
  <1> HIDE DEF first
  <1>3. f[0] = first /\ \A i \in 1..n : f[i] = Offered(f[i - 1], out[i])
    BY <1>1, <1>2
  <1> QED
    BY <1>3 DEF first, Follows

(* Flushed is where the list ends.                                         *)
LEMMA FlushedRuns ==
    ASSUME NEW p, NEW q, NEW out, Len(out) \in Nat
    PROVE  \E f : IsRun(f, p, q, out, Len(out)) /\ Flushed(p, q, out) = f[Len(out)]
  <1> DEFINE f == CHOOSE run :
                    run = [i \in 0..Len(out) |->
                             IF i = 0 THEN [p |-> p, q |-> q, frames |-> <<>>, ok |-> TRUE]
                             ELSE Offered(run[i - 1], out[i])]
  <1>1. \E run : run = [i \in 0..Len(out) |->
                          IF i = 0 THEN [p |-> p, q |-> q, frames |-> <<>>, ok |-> TRUE]
                          ELSE Offered(run[i - 1], out[i])]
    <2>1. \E run : IsRun(run, p, q, out, Len(out))
      BY RunExists
    <2> QED
      BY <2>1 DEF IsRun
  <1>2. IsRun(f, p, q, out, Len(out))
    BY <1>1, Zenon DEF IsRun
  <1>3. Flushed(p, q, out) = f[Len(out)]
    BY DEF Flushed
  <1> QED
    BY <1>2, <1>3

(* What has been reached after i messages of out.                          *)
Reached(acc, p, out, i) ==
    /\ acc \in [p : Protocols, q : Nat, frames : Seq(Requests), ok : BOOLEAN]
    /\ Len(acc.frames) <= i /\ (acc.ok => Len(acc.frames) = i)
    /\ \A j \in 1..Len(acc.frames) : acc.frames[j].o = out[j]
    /\ acc.p # None =>
         \/ p # None /\ acc.p.rid = p.rid
         \/ \E j \in 1..Len(out) : acc.p.rid = out[j].rid

(* Sending is a step of the protocol.                                      *)
LEMMA AfterSendOK ==
    ASSUME NEW p \in Protocols, NEW o \in Messages, NEW q \in Nat, CanSend(p, o)
    PROVE  /\ AfterSend(p, o, q) \in Protocols /\ AfterSend(p, o, q) # None
           /\ AfterSend(p, o, q).rid = o.rid
           /\ o.t = "create" => AfterSend(p, o, q).phase = "Creating"
           /\ o.t = "relay" => AfterSend(p, o, q) = p
  <1>0. o.rid \in Rids /\ o.t \in {"create", "relay", "complete"}
    BY MessageParts
  <1>1. CASE o.t = "create"
    <2>1. AfterSend(p, o, q) = [phase |-> "Creating", rid |-> o.rid, kind |-> o.kind,
                                exp |-> 0, req |-> q, peer |-> Host, how |-> "none"]
      BY <1>1 DEF AfterSend
    <2>2. o.kind \in Kinds
      BY <1>1, MessageParts
    <2>3. AfterSend(p, o, q) \in Protocols
      BY <1>0, <2>1, <2>2 DEF Protocols, Peers
    <2>4. AfterSend(p, o, q).phase = "Creating" /\ AfterSend(p, o, q).rid = o.rid
      BY <2>1
    <2> QED
      BY <1>1, <2>3, <2>4 DEF None
  <1>2. CASE o.t = "relay"
    <2>1. AfterSend(p, o, q) = p /\ p.phase = "Joined" /\ p.rid = o.rid
      BY <1>2 DEF AfterSend, CanSend
    <2> QED
      BY <1>2, <2>1 DEF None
  <1>3. CASE o.t = "complete"
    <2>1. /\ AfterSend(p, o, q) = [p EXCEPT !.phase = "Completing", !.req = q, !.how = o.how]
          /\ p.phase \in {"Inviting", "Joined"} /\ p.rid = o.rid
      BY <1>3 DEF AfterSend, CanSend
    <2>2. o.how \in {"Rejected", "Succeeded"} /\ p # None
      BY <1>3, <2>1, MessageParts DEF None
    <2> QED
      BY <1>3, <2>1, <2>2 DEF Protocols, None
  <1> QED
    BY <1>0, <1>1, <1>2, <1>3

(* One more message.                                                       *)
LEMMA OfferedOK ==
    ASSUME NEW p, NEW out \in Seq(Messages), NEW n \in 1..Len(out), NEW acc,
           Reached(acc, p, out, n - 1)
    PROVE  Reached(Offered(acc, out[n]), p, out, n)
  <1> DEFINE new == Offered(acc, out[n])
  <1>0. /\ out[n] \in Messages /\ n \in Nat
        /\ acc \in [p : Protocols, q : Nat, frames : Seq(Requests), ok : BOOLEAN]
    BY DEF Reached
  <1>1. CASE ~acc.ok \/ ~CanSend(acc.p, out[n])
    <2>1. new = [acc EXCEPT !.ok = FALSE]
      BY <1>1 DEF Offered
    <2>2. new.p = acc.p /\ new.frames = acc.frames /\ new.ok = FALSE
      BY <1>0, <2>1
    <2>3. new \in [p : Protocols, q : Nat, frames : Seq(Requests), ok : BOOLEAN]
      BY <1>0, <2>1
    <2>4. Len(acc.frames) \in Nat /\ Len(acc.frames) <= n
      BY <1>0 DEF Reached
    <2>5. /\ \A j \in 1..Len(acc.frames) : acc.frames[j].o = out[j]
          /\ acc.p # None => \/ p # None /\ acc.p.rid = p.rid
                             \/ \E j \in 1..Len(out) : acc.p.rid = out[j].rid
      BY DEF Reached
    <2> HIDE DEF new
    <2>6. Reached(new, p, out, n)
      BY <2>2, <2>3, <2>4, <2>5 DEF Reached
    <2> QED
      BY <2>6 DEF new
  <1>2. CASE acc.ok /\ CanSend(acc.p, out[n])
    <2> DEFINE m == [o |-> out[n], req |-> acc.q + 1]
               a == AfterSend(acc.p, out[n], acc.q + 1)
    <2>1. new = [acc EXCEPT !.p = a, !.q = acc.q + 1, !.frames = Append(acc.frames, m)]
      BY <1>2 DEF Offered
    <2>2. a \in Protocols /\ a # None /\ a.rid = out[n].rid /\ acc.q + 1 \in Nat
      BY <1>0, <1>2, AfterSendOK
    <2>3. m \in Requests
      BY <1>0 DEF Requests
    <2>4. m.o = out[n]
      OBVIOUS
    <2> HIDE DEF m, a
    <2>5. /\ Append(acc.frames, m) \in Seq(Requests)
          /\ Len(Append(acc.frames, m)) = n
          /\ \A j \in 1..n : Append(acc.frames, m)[j] = IF j = n THEN m ELSE acc.frames[j]
      BY <1>0, <1>2, <2>3 DEF Reached
    <2>6. \A j \in 1..n : Append(acc.frames, m)[j].o = out[j]
      BY <1>0, <1>2, <2>4, <2>5 DEF Reached
    <2>7. /\ new.p = a /\ new.frames = Append(acc.frames, m) /\ new.ok
          /\ new \in [p : Protocols, q : Nat, frames : Seq(Requests), ok : BOOLEAN]
      BY <1>0, <1>2, <2>1, <2>2, <2>5
    <2> QED
      BY <2>2, <2>5, <2>6, <2>7 DEF Reached
  <1> QED
    BY <1>1, <1>2

(* What a drain sends is a beginning of the queue.                         *)
LEMMA RunReaches ==
    ASSUME NEW p \in Protocols, NEW q \in Nat, NEW out \in Seq(Messages), NEW f,
           IsRun(f, p, q, out, Len(out))
    PROVE  \A n \in 0..Len(out) : Reached(f[n], p, out, n)
  <1>0. PICK k \in Nat : k = Len(out)
    OBVIOUS
  <1>1. IsRun(f, p, q, out, k)
    BY <1>0
  <1>2. f[0] = [p |-> p, q |-> q, frames |-> <<>>, ok |-> TRUE]
    BY <1>1, RunSteps
  <1>3. Follows(f, out, k)
    BY <1>1, RunSteps
  <1>4. Reached(f[0], p, out, 0)
    BY <1>2 DEF Reached
  <1> DEFINE T == {n \in 0..Len(out) : ~Reached(f[n], p, out, n)}
  <1>5. T = {}
    <2> SUFFICES ASSUME T # {} PROVE FALSE
      OBVIOUS
    <2>0. T \in SUBSET Nat
      BY <1>0
    <2>1. PICK n \in T : \A m \in T : n <= m
      BY <2>0, LeastNumber
    <2>2. n \in 1..Len(out) /\ n - 1 \in 0..Len(out) /\ n - 1 \notin T
      BY <1>4, <2>1
    <2>3. Reached(f[n - 1], p, out, n - 1)
      BY <2>2
    <2>4. Reached(f[n], p, out, n)
      BY <1>0, <1>3, <2>2, <2>3, OfferedOK DEF Follows
    <2> QED
      BY <2>1, <2>4
  <1> QED
    BY <1>5

(* All of a drain.                                                         *)
LEMMA FlushedOK ==
    ASSUME NEW p \in Protocols, NEW q \in Nat, NEW out \in Seq(Messages)
    PROVE  Reached(Flushed(p, q, out), p, out, Len(out))
  <1>0. Len(out) \in Nat /\ Len(out) \in 0..Len(out)
    OBVIOUS
  <1>1. PICK f : IsRun(f, p, q, out, Len(out)) /\ Flushed(p, q, out) = f[Len(out)]
    BY <1>0, FlushedRuns
  <1> QED
    BY <1>0, <1>1, RunReaches

(* Short drains, and drains that end with a creation.                      *)
LEMMA FlushedEnds ==
    ASSUME NEW p \in Protocols, NEW q \in Nat, NEW out \in Seq(Messages)
    PROVE  LET r == Flushed(p, q, out)
               last == out[Len(out)]
           IN  /\ out = <<>> => r.p = p /\ r.ok
               /\ Len(out) = 1 /\ out[1].t = "relay" /\ CanSend(p, out[1]) => r.p = p /\ r.ok
               /\ out # <<>> /\ last.t = "create" /\ r.ok =>
                    r.p # None /\ r.p.phase = "Creating" /\ r.p.rid = last.rid
  <1> DEFINE r == Flushed(p, q, out)
  <1>0. PICK n \in Nat : n = Len(out)
    OBVIOUS
  <1>1. PICK f : IsRun(f, p, q, out, n) /\ r = f[n]
    BY <1>0, FlushedRuns
  <1>2. f[0] = [p |-> p, q |-> q, frames |-> <<>>, ok |-> TRUE]
    BY <1>1, RunSteps
  <1>3. Follows(f, out, n)
    BY <1>1, RunSteps
  <1>4. CASE out = <<>>
    BY <1>0, <1>1, <1>2, <1>4
  <1>5. ASSUME out # <<>>, out[n].t = "create", r.ok
        PROVE  r.p # None /\ r.p.phase = "Creating" /\ r.p.rid = out[n].rid
    <2>1. n \in 1..n /\ out[n] \in Messages /\ n - 1 \in 0..n
      BY <1>0, <1>5
    <2>2. r = Offered(f[n - 1], out[n])
      BY <1>1, <1>3, <2>1 DEF Follows
    <2> DEFINE acc == f[n - 1]
    <2>3. Reached(acc, p, out, n - 1)
      BY <1>0, <1>1, <2>1, RunReaches
    <2>4. acc.ok /\ CanSend(acc.p, out[n]) /\ r.p = AfterSend(acc.p, out[n], acc.q + 1)
      <3>1. CASE ~acc.ok \/ ~CanSend(acc.p, out[n])
        <4>1. r = [acc EXCEPT !.ok = FALSE]
          BY <2>2, <3>1 DEF Offered
        <4>2. r.ok = FALSE
          BY <2>3, <4>1 DEF Reached
        <4> QED
          BY <1>5, <4>2
      <3>2. CASE acc.ok /\ CanSend(acc.p, out[n])
        <4>1. r = [acc EXCEPT !.p = AfterSend(acc.p, out[n], acc.q + 1), !.q = acc.q + 1,
                     !.frames = Append(acc.frames, [o |-> out[n], req |-> acc.q + 1])]
          BY <2>2, <3>2 DEF Offered
        <4> QED
          BY <2>3, <3>2, <4>1 DEF Reached
      <3> QED
        BY <3>1, <3>2
    <2>5. acc.p \in Protocols /\ acc.q + 1 \in Nat
      BY <2>3 DEF Reached
    <2> QED
      BY <1>5, <2>1, <2>4, <2>5, AfterSendOK
  <1>6. ASSUME n = 1, out[1].t = "relay", CanSend(p, out[1])
        PROVE  r.p = p /\ r.ok
    <2>1. 1 \in 1..n /\ out[1] \in Messages /\ 1 - 1 = 0 /\ q + 1 \in Nat
      <3>1. Len(out) = 1 /\ 1 \in 1..n
        BY <1>0, <1>6
      <3> QED
        BY <3>1
    <2>2. f[1] = Offered(f[0], out[1])
      BY <1>3, <2>1 DEF Follows
    <2>3. AfterSend(p, out[1], q + 1) = p
      BY <1>6, <2>1, AfterSendOK
    <2>4. f[0].p = p /\ f[0].q = q /\ f[0].ok /\ f[0].frames = <<>>
      BY <1>2
    <2>5. f[1] = [f[0] EXCEPT !.p = AfterSend(p, out[1], q + 1), !.q = q + 1,
                     !.frames = Append(<<>>, [o |-> out[1], req |-> q + 1])]
      BY <1>6, <2>2, <2>4 DEF Offered
    <2>6. f[1].p = p /\ f[1].ok
      BY <1>2, <2>3, <2>5
    <2> QED
      BY <1>1, <1>6, <2>6
  <1> QED
    BY <1>0, <1>4, <1>5, <1>6

----------------------------------------------------------------------------
(* The coordinator.  Every invariant of it is stated of a coordinator s,   *)
(* what the Controllers said, the envelopes S sealed so far, the service's *)
(* rendezvous v, the grants G and the requests q still on their way, so    *)
(* that the methods can be treated one by one.                             *)

SealedRelay(m) == m.t = "relay" /\ m.envelope.t = "sealed"
IsDecision(m) == SealedRelay(m) /\ m.envelope.body.t = "decision"
Late == {"WaitingHello", "WaitingReady", "WaitingDecision"}
Verified == {"WaitingReady", "WaitingDecision"}

(* An active pairing is the last one started, and is whom it verified.     *)
ActiveOK(s) ==
    Active(s) =>
      LET a == s.active
      IN  /\ s.conn /\ a.rid = s.starts /\ s.terminal = 0
          /\ a.phase \in Late => a.peer \in Controllers
          /\ a.phase \in Verified =>
               /\ a.controller = a.peer
               /\ a.transcript = Transcript(a.controller, a.rid)
               /\ a.key = PairingKeys(a.transcript)

(* The Controller of rendezvous r was c, and no other can join it.         *)
Met(v, r, c) == v[r].state \in {"joined", "gone"} /\ v[r].peer = c

(* What a message that is not yet served says is true.                     *)
TrueMessage(m, v, G) ==
    /\ m.t = "create" => v[m.rid].state = "absent"
    /\ SealedRelay(m) => Met(v, m.rid, m.envelope.aad.controller)
    /\ IsDecision(m) /\ m.envelope.body.status = "Accepted" =>
         <<m.envelope.aad.controller, m.rid>> \in G
    /\ m.t = "complete" /\ m.how = "Succeeded" => v[m.rid].state \in {"joined", "gone"}

(* A success is reported only behind the decision.                         *)
Announced(out, j) == j > 1 /\ IsDecision(out[j - 1]) /\ out[j - 1].rid = out[j].rid
Succeeds(m) == m.t = "complete" /\ m.how = "Succeeded"

OutOK(out, k, v, G, q) ==
    /\ out \in Seq(Messages)
    /\ \A i \in 1..Len(out) : out[i].rid <= k /\ TrueMessage(out[i], v, G)
    /\ \A i, j \in 1..Len(out) :
          out[i].t = "create" /\ out[j].t = "create" /\ out[i].rid = out[j].rid => i = j
    /\ \A i \in 1..Len(q), j \in 1..Len(out) :
          q[i].o.t = "create" /\ out[j].t = "create" => q[i].o.rid # out[j].rid
    /\ \A j \in 1..Len(out) : Succeeds(out[j]) => Announced(out, j)

ProvedOK(s, said) ==
    Active(s) =>
      LET a == s.active
      IN  /\ a.phase \in Verified => Hello(a.controller, a.rid, a.rid) \in Range(said)
          /\ a.phase = "WaitingDecision" => Ready(a.controller, a.rid) \in Range(said)

SealsOK(s, S) ==
    /\ \A x \in S : x.rid \in Rids /\ x.rid <= s.starts /\ x \in Seals(x.rid)
    /\ \A x, y \in S : x.rid = y.rid /\ x.seq = y.seq => x = y
    /\ Active(s) => \A x \in S : x.rid = s.starts => x.seq = 1 /\ s.active.phase \in Verified

MetOK(s, v) == Active(s) /\ s.active.phase \in Late => Met(v, s.active.rid, s.active.peer)

Good(s, said, S, v, G, q) ==
    /\ s \in Coordinators /\ ActiveOK(s)
    /\ OutOK(s.outbound, s.starts, v, G, q)
    /\ ProvedOK(s, said)
    /\ SealsOK(s, S \cup SealedIn(s.outbound))
    /\ MetOK(s, v)

(* What a sealed envelope has.                                             *)
LEMMA SealParts ==
    ASSUME NEW r, NEW e \in Seals(r)
    PROVE  /\ e.t = "sealed" /\ e.rid = r /\ e.dir = "h2c" /\ e.seq \in {1, 2}
           /\ e.aad.controller \in Controllers
           /\ e.key = PairingKeys(Transcript(e.aad.controller, r))
  <1>1. ASSUME NEW c \in Controllers, e = Proof(c, r)
        PROVE  /\ e.t = "sealed" /\ e.rid = r /\ e.dir = "h2c" /\ e.seq \in {1, 2}
               /\ e.aad.controller = c /\ e.key = PairingKeys(Transcript(c, r))
    BY <1>1 DEF Proof, Sealed, PairingAad
  <1>2. ASSUME NEW c \in Controllers, NEW status, e = Verdict(c, r, status)
        PROVE  /\ e.t = "sealed" /\ e.rid = r /\ e.dir = "h2c" /\ e.seq \in {1, 2}
               /\ e.aad.controller = c /\ e.key = PairingKeys(Transcript(c, r))
    BY <1>2 DEF Verdict, Sealed, PairingAad
  <1> QED
    BY <1>1, <1>2 DEF Seals

(* A key belongs to one Controller and one rendezvous.                     *)
LEMMA KeysDiffer ==
    ASSUME NEW c, NEW r, NEW d, NEW k,
           PairingKeys(Transcript(c, r)) = PairingKeys(Transcript(d, k))
    PROVE  c = d /\ r = k
  <1>1. Transcript(c, r) = Transcript(d, k)
    BY DEF PairingKeys
  <1> QED
    BY <1>1 DEF Transcript

(* Nonces of sealed envelopes are used once, if rendezvous and sequence    *)
(* are.                                                                    *)
LEMMA SealsNonces ==
    ASSUME NEW s, NEW S, SealsOK(s, S)
    PROVE  \A x, y \in S : (x.key = y.key /\ PairingNonce(x) = PairingNonce(y)) => x = y
  <1> SUFFICES ASSUME NEW x \in S, NEW y \in S, x.key = y.key, PairingNonce(x) = PairingNonce(y)
               PROVE  x = y
    OBVIOUS
  <1>1. x \in Seals(x.rid) /\ y \in Seals(y.rid)
    BY DEF SealsOK
  <1>2. x.rid = y.rid
    BY <1>1, SealParts, KeysDiffer
  <1>3. x.seq = y.seq
    BY DEF PairingNonce
  <1> QED
    BY <1>2, <1>3 DEF SealsOK

(* What a longer queue holds.                                              *)
LEMMA SealedAppend ==
    ASSUME NEW out \in Seq(Messages), NEW m \in Messages
    PROVE  SealedIn(Append(out, m))
             = SealedIn(out) \cup (IF SealedRelay(m) THEN {m.envelope} ELSE {})
  <1> DEFINE new == Append(out, m)
             n == Len(out)
  <1>1. /\ DOMAIN out = 1..n /\ DOMAIN new = 1..n + 1 /\ n \in Nat
        /\ \A i \in 1..n : new[i] = out[i]
        /\ new[n + 1] = m
    OBVIOUS
  <1>2. \A i \in 1..n + 1 : i \in 1..n \/ i = n + 1
    BY <1>1
  <1>3. \A i \in 1..n : i \in 1..n + 1
    BY <1>1
  <1>4. n + 1 \in 1..n + 1
    BY <1>1
  <1> HIDE DEF new, n
  <1>5. SealedIn(new) = SealedIn(out) \cup (IF SealedRelay(m) THEN {m.envelope} ELSE {})
    BY <1>1, <1>2, <1>3, <1>4 DEF SealedIn, SealedRelay
  <1> QED
    BY <1>5 DEF new

(* A message is added to the queue.                                        *)
LEMMA PushOK ==
    ASSUME NEW out, NEW k, NEW v, NEW G, NEW q, OutOK(out, k, v, G, q),
           NEW m \in Messages, m.rid <= k, m.t # "create", TrueMessage(m, v, G),
           Succeeds(m) => Len(out) > 0 /\ IsDecision(out[Len(out)]) /\ out[Len(out)].rid = m.rid
    PROVE  OutOK(Append(out, m), k, v, G, q)
  <1> DEFINE new == Append(out, m)
             n == Len(out)
  <1>0. out \in Seq(Messages) /\ n \in Nat
    BY DEF OutOK
  <1>1. /\ new \in Seq(Messages) /\ Len(new) = n + 1
        /\ \A i \in 1..n : new[i] = out[i]
        /\ new[n + 1] = m
    BY <1>0
  <1>2. \A i \in 1..n + 1 : i \in 1..n \/ i = n + 1
    BY <1>0
  <1> HIDE DEF new
  <1>3. \A i \in 1..n + 1 : new[i].rid <= k /\ TrueMessage(new[i], v, G)
    BY <1>1, <1>2 DEF OutOK
  <1>4. \A i, j \in 1..n + 1 :
          new[i].t = "create" /\ new[j].t = "create" /\ new[i].rid = new[j].rid => i = j
    BY <1>1, <1>2 DEF OutOK
  <1>5. \A i \in 1..Len(q), j \in 1..n + 1 :
          q[i].o.t = "create" /\ new[j].t = "create" => q[i].o.rid # new[j].rid
    BY <1>1, <1>2 DEF OutOK
  <1>6. ASSUME NEW j \in 1..n + 1, Succeeds(new[j])
        PROVE  Announced(new, j)
    <2>1. CASE j \in 1..n
      <3>1. Announced(out, j)
        BY <1>1, <1>6, <2>1 DEF OutOK
      <3>2. j - 1 \in 1..n
        BY <1>0, <2>1, <3>1 DEF Announced
      <3> QED
        BY <1>1, <2>1, <3>1, <3>2 DEF Announced
    <2>2. CASE j = n + 1
      <3>1. n > 0 /\ IsDecision(out[n]) /\ out[n].rid = m.rid
        BY <1>1, <1>6, <2>2
      <3>2. n \in 1..n /\ j - 1 = n /\ j > 1
        BY <1>0, <2>2, <3>1
      <3> QED
        BY <1>1, <2>2, <3>1, <3>2 DEF Announced
    <2> QED
      BY <1>2, <2>1, <2>2
  <1>7. OutOK(new, k, v, G, q)
    BY <1>1, <1>3, <1>4, <1>5, <1>6 DEF OutOK
  <1> QED
    BY <1>7 DEF new

(* Ending a pairing, and adding to the queue.                              *)
LEMMA FinishFields ==
    ASSUME NEW s \in Coordinators, NEW status \in Statuses
    PROVE  LET t == Finish(s, status)
           IN  /\ t \in Coordinators /\ t.active = None /\ t.starts = s.starts
               /\ t.outbound = s.outbound /\ t.conn = s.conn
  <1>1. s.active \in Pairings \cup {None}
    BY DEF Coordinators
  <1>2. Active(s) => s.active.rid \in 0..MaxStarts
    BY <1>1, Limits DEF Active, Pairings, Rids
  <1>3. (IF Active(s) THEN s.active.rid ELSE s.terminal) \in 0..MaxStarts
    BY <1>2 DEF Coordinators
  <1> QED
    BY <1>3 DEF Finish, Coordinators

LEMMA PushFields ==
    ASSUME NEW s \in Coordinators, NEW m \in Messages
    PROVE  LET t == Push(s, m)
           IN  /\ t \in Coordinators /\ t.outbound = Append(s.outbound, m)
               /\ t.active = s.active /\ t.starts = s.starts /\ t.conn = s.conn
               /\ t.terminal = s.terminal
  <1>1. Append(s.outbound, m) \in Seq(Messages)
    BY DEF Coordinators
  <1> QED
    BY <1>1 DEF Push, Coordinators

(* The messages that are pushed.                                           *)
LEMMA Pushed ==
    ASSUME NEW r \in Rids
    PROVE  /\ \A how \in {"Rejected", "Succeeded"} :
                 /\ Complete(r, how) \in Messages
                 /\ Complete(r, how).t = "complete" /\ Complete(r, how).rid = r
                 /\ Complete(r, how).how = how
           /\ \A e \in Seals(r) \cup {Invitation} :
                 /\ Relay(r, e) \in Messages
                 /\ Relay(r, e).t = "relay" /\ Relay(r, e).rid = r
                 /\ Relay(r, e).envelope = e
  <1>1. \A how \in {"Rejected", "Succeeded"} : Complete(r, how) \in Messages
    BY DEF Complete, Messages
  <1>2. \A e \in Seals(r) \cup {Invitation} : Relay(r, e) \in Relays
    BY DEF Relays
  <1>3. \A e \in Seals(r) \cup {Invitation} : Relay(r, e) \in Messages
    BY <1>2 DEF Messages
  <1> QED
    BY <1>1, <1>3 DEF Complete, Relay

(* The pairing of s is over in t, which says so at most once more.         *)
Closes(s, t) ==
    /\ t \in Coordinators /\ t.starts = s.starts /\ t.active = None /\ (t.conn => s.conn)
    /\ \/ t.outbound = s.outbound \/ t.outbound = <<>>
       \/ \E k \in Rids : k <= s.starts /\ t.outbound = Append(s.outbound, Complete(k, "Rejected"))

(* A coordinator without a pairing keeps what it has queued.               *)
LEMMA ClosesGood ==
    ASSUME NEW s, NEW said, NEW S, NEW v, NEW G, NEW q, Good(s, said, S, v, G, q),
           NEW t, Closes(s, t)
    PROVE  Good(t, said, S, v, G, q)
  <1>0. s \in Coordinators /\ s.outbound \in Seq(Messages)
    BY DEF Good, Coordinators
  <1>1. ~Active(t)
    BY DEF Active, Closes
  <1>2. OutOK(t.outbound, s.starts, v, G, q) /\ SealedIn(t.outbound) \subseteq SealedIn(s.outbound)
    <2>1. CASE t.outbound = s.outbound
      BY <2>1 DEF Good
    <2>2. CASE t.outbound = <<>>
      BY <2>2 DEF OutOK, SealedIn
    <2>3. CASE \E k \in Rids :
                 k <= s.starts /\ t.outbound = Append(s.outbound, Complete(k, "Rejected"))
      <3>1. PICK k \in Rids :
                 k <= s.starts /\ t.outbound = Append(s.outbound, Complete(k, "Rejected"))
        BY <2>3
      <3>2. PICK m : m = Complete(k, "Rejected")
        OBVIOUS
      <3>3. m \in Messages /\ m.t = "complete" /\ m.rid = k /\ m.how = "Rejected"
        BY <3>2, Pushed
      <3>4. TrueMessage(m, v, G) /\ ~Succeeds(m) /\ ~SealedRelay(m)
        BY <3>3 DEF TrueMessage, Succeeds, SealedRelay, IsDecision
      <3>5. OutOK(Append(s.outbound, m), s.starts, v, G, q)
        BY <3>1, <3>3, <3>4, PushOK DEF Good
      <3>6. SealedIn(Append(s.outbound, m)) = SealedIn(s.outbound)
        BY <1>0, <3>3, <3>4, SealedAppend
      <3> QED
        BY <3>1, <3>2, <3>5, <3>6
    <2> QED
      BY <2>1, <2>2, <2>3 DEF Closes
  <1>3. SealsOK(t, S \cup SealedIn(t.outbound))
    <2>1. SealsOK(s, S \cup SealedIn(s.outbound)) /\ t.starts = s.starts
      BY DEF Good, Closes
    <2> QED
      BY <1>1, <1>2, <2>1 DEF SealsOK
  <1>4. ActiveOK(t) /\ ProvedOK(t, said) /\ MetOK(t, v)
    BY <1>1 DEF ActiveOK, ProvedOK, MetOK
  <1> QED
    BY <1>2, <1>3, <1>4 DEF Good, Closes

(* The active pairing's identifier.                                        *)
LEMMA ActiveRid ==
    ASSUME NEW s \in Coordinators, ActiveOK(s), Active(s)
    PROVE  s.active \in Pairings /\ s.active.rid \in Rids /\ s.active.rid = s.starts
  BY DEF Coordinators, ActiveOK, Active, Pairings

(* Each of these ends the pairing.                                         *)
LEMMA Ends ==
    ASSUME NEW s \in Coordinators, ActiveOK(s)
    PROVE  /\ Active(s) => /\ Closes(s, FailActive(s))
                           /\ \A status \in Statuses : Closes(s, Abandon(s, status))
           /\ \A status \in Statuses : Closes(s, Finish(s, status))
           /\ Closes(s, SignalingLost(s))
           /\ Closes(s, Shutdown(s))
  <1>1. \A status \in Statuses : Closes(s, Finish(s, status))
    BY FinishFields DEF Closes
  <1>2. ASSUME Active(s)
        PROVE  /\ Closes(s, FailActive(s))
               /\ \A status \in Statuses : Closes(s, Abandon(s, status))
    <2>0. s.active.rid \in Rids /\ s.active.rid = s.starts /\ s.starts <= s.starts
      BY <1>2, ActiveRid, Limits DEF Rids
    <2>1. PICK m : m = Complete(s.active.rid, "Rejected")
      OBVIOUS
    <2>2. m \in Messages
      BY <2>0, <2>1, Pushed
    <2>3. /\ Push(s, m) \in Coordinators /\ Push(s, m).outbound = Append(s.outbound, m)
          /\ Push(s, m).starts = s.starts /\ Push(s, m).conn = s.conn
      BY <2>2, PushFields
    <2>4. \A status \in Statuses : Closes(s, Finish(Push(s, m), status))
      BY <2>0, <2>1, <2>3, FinishFields DEF Closes
    <2>5. Closes(s, FailActive(s))
      <3>1. FailActive(s) = Finish(s, "Failed") \/ FailActive(s) = Finish(Push(s, m), "Failed")
        BY <2>1 DEF FailActive
      <3> QED
        BY <1>1, <2>4, <3>1 DEF Statuses
    <2> DEFINE c == [s EXCEPT !.cancelled = s.active.rid]
    <2>6. c \in Coordinators /\ c.outbound = s.outbound /\ c.starts = s.starts /\ c.conn = s.conn
      BY <2>0, Limits DEF Coordinators, Rids
    <2> HIDE DEF c
    <2>7. \A status \in Statuses : Closes(s, Finish(c, status))
      BY <2>6, FinishFields DEF Closes
    <2>8. \A status \in Statuses : Closes(s, Abandon(s, status))
      BY <2>1, <2>4, <2>7 DEF Abandon, c
    <2> QED
      BY <2>5, <2>8
  <1>3. Closes(s, SignalingLost(s))
    <2> DEFINE c == [s EXCEPT !.conn = FALSE, !.cancelled = 0]
    <2>0. 0 \in 0..MaxStarts
      BY Limits
    <2>1. c \in Coordinators /\ c.outbound = s.outbound /\ c.starts = s.starts /\ c.conn = FALSE
          /\ c.active = s.active
      BY <2>0 DEF Coordinators
    <2> HIDE DEF c
    <2>2. \A status \in Statuses : Closes(s, Finish(c, status))
      BY <2>1, FinishFields DEF Closes
    <2>3. ~Active(s) => Closes(s, c)
      BY <2>1 DEF Closes, Active
    <2> QED
      BY <2>2, <2>3 DEF SignalingLost, c, Statuses
  <1>4. Closes(s, Shutdown(s))
    <2> DEFINE c == [s EXCEPT !.conn = FALSE, !.cancelled = 0, !.outbound = <<>>]
    <2>1. /\ c \in Coordinators /\ c.outbound = <<>> /\ c.starts = s.starts
          /\ c.active = s.active /\ c.conn = FALSE
      <3>1. 0 \in 0..MaxStarts /\ <<>> \in Seq(Messages)
        BY Limits
      <3> QED
        BY <3>1 DEF Coordinators
    <2> HIDE DEF c
    <2>2. \A status \in Statuses : Closes(s, Finish(c, status))
      BY <2>1, FinishFields DEF Closes
    <2>3. ~Active(s) => Closes(s, c)
      BY <2>1 DEF Closes, Active
    <2> QED
      BY <2>2, <2>3 DEF Shutdown, c, Statuses
  <1> QED
    BY <1>1, <1>2, <1>3, <1>4

(* A deadline that passes ends the pairing; otherwise nothing happens.     *)
LEMMA TickOK ==
    ASSUME NEW s \in Coordinators, ActiveOK(s)
    PROVE  /\ Tick(s) = s \/ Closes(s, Tick(s))
           /\ Active(Tick(s)) => Tick(s) = s /\ ~(clock >= s.active.exp)
  <1>1. CASE Active(s) /\ clock >= s.active.exp
    <2>1. Tick(s) = Abandon(s, "Expired")
      BY <1>1 DEF Tick
    <2>2. Closes(s, Tick(s))
      BY <1>1, <2>1, Ends DEF Statuses
    <2> QED
      BY <2>2 DEF Closes, Active
  <1>2. CASE ~(Active(s) /\ clock >= s.active.exp)
    BY <1>2 DEF Tick
  <1> QED
    BY <1>1, <1>2

(* A pairing that goes on as a, with nothing or an invitation queued.      *)
LEMMA Advances ==
    ASSUME NEW s, NEW said, NEW S, NEW v, NEW G, NEW q, Good(s, said, S, v, G, q),
           Active(s), NEW t \in Coordinators, t.active \in Pairings,
           t.active.rid = s.starts, t.starts = s.starts,
           t.conn = s.conn, t.terminal = s.terminal,
           \/ t.outbound = s.outbound
           \/ t.outbound = Append(s.outbound, Relay(s.starts, Invitation)),
           ActiveOK(t), MetOK(t, v), ProvedOK(t, said),
           s.active.phase \in Verified => t.active.phase \in Verified
    PROVE  Good(t, said, S, v, G, q)
  <1>0. s \in Coordinators /\ s.outbound \in Seq(Messages) /\ s.starts \in Rids
    BY ActiveRid DEF Good, Coordinators
  <1>1. OutOK(t.outbound, s.starts, v, G, q) /\ SealedIn(t.outbound) = SealedIn(s.outbound)
    <2>1. CASE t.outbound = s.outbound
      BY <2>1 DEF Good
    <2>2. CASE t.outbound = Append(s.outbound, Relay(s.starts, Invitation))
      <3>1. PICK m : m = Relay(s.starts, Invitation)
        OBVIOUS
      <3>2. m \in Messages /\ m.t = "relay" /\ m.rid = s.starts /\ m.envelope = Invitation
        BY <1>0, <3>1, Pushed
      <3>3. ~SealedRelay(m) /\ ~Succeeds(m) /\ TrueMessage(m, v, G)
        BY <3>2 DEF SealedRelay, Succeeds, TrueMessage, IsDecision, Invitation
      <3>4. OutOK(Append(s.outbound, m), s.starts, v, G, q)
        <4>1. m.rid <= s.starts
          BY <1>0, <3>2, Limits DEF Rids
        <4> QED
          BY <3>2, <3>3, <4>1, PushOK DEF Good
      <3>5. SealedIn(Append(s.outbound, m)) = SealedIn(s.outbound)
        BY <1>0, <3>2, <3>3, SealedAppend
      <3> QED
        BY <2>2, <3>1, <3>4, <3>5
    <2> QED
      BY <2>1, <2>2
  <1>2. SealsOK(t, S \cup SealedIn(t.outbound))
    BY <1>1 DEF Good, SealsOK
  <1> QED
    BY <1>1, <1>2 DEF Good

(* A creation is confirmed, or the cancellation that waited for it is.     *)
LEMMA CreatedGood ==
    ASSUME NEW s, NEW said, NEW S, NEW v, NEW G, NEW q, Good(s, said, S, v, G, q),
           NEW f, f.rid \in Rids, f.rid <= s.starts, f.exp \in Int, clock \in Nat
    PROVE  Good(HandleCreated(s, f), said, S, v, G, q)
  <1>0. s \in Coordinators /\ ActiveOK(s) /\ SealsOK(s, S \cup SealedIn(s.outbound))
    BY DEF Good
  <1>1. CASE ~Active(s) /\ s.cancelled = f.rid
    <2> DEFINE c == [s EXCEPT !.cancelled = 0]
    <2>1. /\ c \in Coordinators /\ c.outbound = s.outbound /\ c.starts = s.starts
          /\ c.active = None /\ c.conn = s.conn
      <3>1. 0 \in 0..MaxStarts
        BY Limits
      <3> QED
        BY <1>0, <1>1, <3>1 DEF Coordinators, Active
    <2>2. HandleCreated(s, f) = Push(c, Complete(f.rid, "Rejected"))
      BY <1>1 DEF HandleCreated, Active, None
    <2>3. Complete(f.rid, "Rejected") \in Messages
      BY Pushed
    <2> HIDE DEF c
    <2>4. PICK m \in Messages : m = Complete(f.rid, "Rejected")
      BY <2>3
    <2>5. Closes(s, Push(c, m))
      <3>1. /\ Push(c, m) \in Coordinators /\ Push(c, m).outbound = Append(c.outbound, m)
            /\ Push(c, m).active = c.active /\ Push(c, m).starts = c.starts
            /\ Push(c, m).conn = c.conn
        BY <2>1, PushFields
      <3> QED
        BY <2>1, <2>4, <3>1 DEF Closes
    <2> QED
      BY <2>2, <2>4, <2>5, ClosesGood
  <1>2. CASE /\ Active(s) /\ s.active.phase = "Creating" /\ s.active.rid = f.rid
             /\ s.active.kind = f.kind /\ f.exp > clock
    <2> DEFINE e == IF f.exp < s.active.exp THEN f.exp ELSE s.active.exp
               a == [s.active EXCEPT !.phase = "Inviting", !.serverExp = f.exp, !.exp = e]
               t == [s EXCEPT !.status = "Inviting", !.active = a]
    <2>1. HandleCreated(s, f) = t
      BY <1>2 DEF HandleCreated
    <2>2. s.active \in Pairings /\ s.active.rid = s.starts
      BY <1>0, <1>2, ActiveRid
    <2>3. e \in Int
      BY <2>2 DEF Pairings
    <2> HIDE DEF e
    <2>4. a \in Pairings /\ a.rid = s.starts /\ a.phase = "Inviting"
      BY <2>2, <2>3 DEF Pairings, Phases
    <2> HIDE DEF a
    <2>5. /\ t \in Coordinators /\ t.active = a /\ t.starts = s.starts /\ t.conn = s.conn
          /\ t.terminal = s.terminal /\ t.outbound = s.outbound
      BY <1>0, <2>4 DEF Coordinators, Statuses
    <2> HIDE DEF t
    <2>6. ActiveOK(t) /\ MetOK(t, v) /\ ProvedOK(t, said)
      BY <1>0, <1>2, <2>4, <2>5 DEF ActiveOK, MetOK, ProvedOK, Late, Verified
    <2>7. Good(t, said, S, v, G, q)
      BY <1>2, <2>4, <2>5, <2>6, Advances DEF Verified
    <2> QED
      BY <2>1, <2>7
  <1>3. CASE /\ ~(~Active(s) /\ s.cancelled = f.rid)
             /\ ~(/\ Active(s) /\ s.active.phase = "Creating" /\ s.active.rid = f.rid
                  /\ s.active.kind = f.kind /\ f.exp > clock)
    <2>1. ~Active(s) => s.active.phase # "Creating"
      BY DEF Active, None
    <2>2. HandleCreated(s, f) = s
      BY <1>3, <2>1 DEF HandleCreated
    <2> QED
      BY <2>2
  <1> QED
    BY <1>1, <1>2, <1>3

(* A Controller has joined.                                                *)
LEMMA JoinedGood ==
    ASSUME NEW s, NEW said, NEW S, NEW v, NEW G, NEW q, Good(s, said, S, v, G, q),
           NEW f, f.peer \in Controllers, Met(v, f.rid, f.peer)
    PROVE  Good(HandleJoined(s, f), said, S, v, G, q)
  <1>0. s \in Coordinators /\ ActiveOK(s)
    BY DEF Good
  <1> DEFINE a == [s.active EXCEPT !.phase = "WaitingHello", !.peer = f.peer]
             j == [s EXCEPT !.status = "VerifyingController", !.active = a]
             m == Relay(f.rid, [t |-> "invitation"])
  <1>1. CASE HandleJoined(s, f) = s
    BY <1>1
  <1>2. CASE HandleJoined(s, f) # s
    <2>1. /\ s.active.phase = "Inviting" /\ s.active.rid = f.rid
          /\ HandleJoined(s, f) \in {j, Push(j, m)}
      BY <1>2 DEF HandleJoined
    <2>2. Active(s) /\ s.active \in Pairings /\ f.rid = s.starts /\ f.rid \in Rids
      <3>1. Active(s)
        BY <2>1 DEF Active, None
      <3> QED
        BY <1>0, <2>1, <3>1, ActiveRid
    <2>3. a \in Pairings /\ a.rid = s.starts /\ a.phase = "WaitingHello" /\ a.peer = f.peer
      BY <2>1, <2>2 DEF Pairings, Phases, Peers
    <2> HIDE DEF a
    <2>4. /\ j \in Coordinators /\ j.active = a /\ j.starts = s.starts /\ j.conn = s.conn
          /\ j.terminal = s.terminal /\ j.outbound = s.outbound
      BY <1>0, <2>3 DEF Coordinators, Statuses
    <2>5. m \in Messages /\ m = Relay(s.starts, Invitation)
      BY <2>2, Pushed DEF Invitation
    <2> HIDE DEF j, m
    <2>6. PICK t : t = HandleJoined(s, f)
      OBVIOUS
    <2>7. /\ t \in Coordinators /\ t.active = a /\ t.starts = s.starts /\ t.conn = s.conn
          /\ t.terminal = s.terminal
          /\ t.outbound = s.outbound \/ t.outbound = Append(s.outbound, Relay(s.starts, Invitation))
      <3>1. CASE t = j
        BY <2>4, <3>1
      <3>2. CASE t = Push(j, m)
        <4>1. /\ t \in Coordinators /\ t.active = j.active /\ t.starts = j.starts
              /\ t.conn = j.conn /\ t.terminal = j.terminal /\ t.outbound = Append(j.outbound, m)
          BY <2>4, <2>5, <3>2, PushFields
        <4> QED
          BY <2>4, <2>5, <4>1
      <3> QED
        BY <2>1, <2>6, <3>1, <3>2
    <2>8. ActiveOK(t) /\ MetOK(t, v) /\ ProvedOK(t, said)
      BY <1>0, <2>2, <2>3, <2>7 DEF ActiveOK, MetOK, ProvedOK, Late, Verified
    <2>9. s.active.phase \notin Verified
      BY <2>1 DEF Verified
    <2> QED
      BY <2>2, <2>3, <2>6, <2>7, <2>8, <2>9, Advances
  <1> QED
    BY <1>1, <1>2

(* Which greetings are verified.                                           *)
LEMMA HelloIs ==
    ASSUME NEW r, NEW e \in Greetings(r), NEW c, VerifyHello(e, c, r)
    PROVE  e = Hello(c, r, r) /\ e.identity = c
  <1>1. CASE \E d \in Controllers, k \in Rids : e = Hello(d, r, k)
    <2>1. PICK d \in Controllers, k \in Rids : e = Hello(d, r, k)
      BY <1>1
    <2>2. e.identity = d /\ e.transcript = Transcript(d, k)
      BY <2>1 DEF Hello
    <2>3. d = c /\ Transcript(d, k) = Transcript(d, r)
      BY <2>2 DEF VerifyHello
    <2>4. k = r
      BY <2>3 DEF Transcript
    <2> QED
      BY <2>1, <2>2, <2>3, <2>4
  <1>2. CASE \E d \in Controllers : e = Ready(d, r)
    <2>1. e.t = "sealed"
      BY <1>2 DEF Ready, Sealed
    <2> QED
      BY <2>1 DEF VerifyHello
  <1> QED
    BY <1>1, <1>2 DEF Greetings

LEMMA ReadyIs ==
    ASSUME NEW r, NEW e \in Greetings(r), NEW a, VerifyReady(e, a),
           a.key = PairingKeys(Transcript(a.controller, r))
    PROVE  e = Ready(a.controller, r)
  <1>1. CASE \E d \in Controllers, k \in Rids : e = Hello(d, r, k)
    <2>1. e.t = "hello"
      BY <1>1 DEF Hello
    <2> QED
      BY <2>1 DEF VerifyReady, Opens
  <1>2. CASE \E d \in Controllers : e = Ready(d, r)
    <2>1. PICK d \in Controllers : e = Ready(d, r)
      BY <1>2
    <2>2. e.key = PairingKeys(Transcript(d, r))
      BY <2>1 DEF Ready, Sealed
    <2>3. d = a.controller
      BY <2>2, KeysDiffer DEF VerifyReady, Opens
    <2> QED
      BY <2>1, <2>3
  <1> QED
    BY <1>1, <1>2 DEF Greetings

(* One more envelope is sealed in the last rendezvous.                     *)
LEMMA SealsMore ==
    ASSUME NEW s, NEW t, NEW X, NEW e, SealsOK(s, X), t.starts = s.starts, s.starts \in Rids,
           e \in Seals(s.starts), \A x \in X : x.rid = s.starts => x.seq # e.seq,
           Active(t) => /\ e.seq = 1 /\ t.active.phase \in Verified
                        /\ \A x \in X : x.rid # s.starts
    PROVE  SealsOK(t, X \cup {e})
  <1>1. e.rid = s.starts /\ e.rid <= s.starts
    BY SealParts, Limits DEF Rids
  <1>2. \A x \in X \cup {e} : x.rid \in Rids /\ x.rid <= t.starts /\ x \in Seals(x.rid)
    BY <1>1 DEF SealsOK
  <1>3. \A x, y \in X \cup {e} : x.rid = y.rid /\ x.seq = y.seq => x = y
    BY <1>1 DEF SealsOK
  <1>4. Active(t) => \A x \in X \cup {e} : x.rid = t.starts => x.seq = 1 /\ t.active.phase \in Verified
    BY <1>1
  <1> QED
    BY <1>2, <1>3, <1>4 DEF SealsOK

(* What the Host seals, for a pairing whose keys are its Controller's.     *)
LEMMA HostSeals ==
    ASSUME NEW a, a.key = PairingKeys(Transcript(a.controller, a.rid)),
           a.transcript = Transcript(a.controller, a.rid), a.controller \in Controllers
    PROVE  /\ HostSealed(a, 1, [t |-> "proof"]) = Proof(a.controller, a.rid)
           /\ Proof(a.controller, a.rid) \in Seals(a.rid)
           /\ \A status \in {"Accepted", "Rejected"} :
                /\ HostSealed(a, 2, [t |-> "decision", status |-> status,
                                     transcript |-> a.transcript])
                     = Verdict(a.controller, a.rid, status)
                /\ Verdict(a.controller, a.rid, status) \in Seals(a.rid)
  BY DEF HostSealed, Proof, Verdict, Seals

LEMMA SealFields ==
    ASSUME NEW c, NEW r
    PROVE  /\ Proof(c, r).seq = 1 /\ Proof(c, r).t = "sealed" /\ Proof(c, r).body.t = "proof"
           /\ Proof(c, r).aad.controller = c
           /\ \A status \in {"Accepted", "Rejected"} :
                LET w == Verdict(c, r, status)
                IN  /\ w.seq = 2 /\ w.t = "sealed" /\ w.body.t = "decision"
                    /\ w.body.status = status /\ w.aad.controller = c
  BY DEF Proof, Verdict, Sealed, PairingAad

(* The greeting is answered with the proof.                                *)
LEMMA HelloGood ==
    ASSUME NEW s, NEW said, NEW S, NEW v, NEW G, NEW q, Good(s, said, S, v, G, q),
           NEW f, f.envelope \in Greetings(f.rid), f.envelope \in Range(said),
           Active(s), s.active.phase = "WaitingHello", s.active.rid = f.rid,
           s.active.peer = f.sender, VerifyHello(f.envelope, f.sender, f.rid)
    PROVE  /\ Good(HandleHello(s, f), said, S, v, G, q)
           /\ Active(HandleHello(s, f))
           /\ HandleHello(s, f).active.phase = "WaitingReady"
           /\ HandleHello(s, f).active.peer = s.active.peer
           /\ HandleHello(s, f).starts = s.starts
           /\ \E m \in Messages : /\ m.t = "relay" /\ m.rid = f.rid
                                  /\ HandleHello(s, f).outbound = Append(s.outbound, m)
  <1>0. /\ s \in Coordinators /\ ActiveOK(s) /\ s.active \in Pairings
        /\ f.rid \in Rids /\ f.rid = s.starts /\ s.outbound \in Seq(Messages)
    BY ActiveRid DEF Good, Coordinators
  <1>1. PICK c \in Controllers : c = f.sender
    BY DEF Good, ActiveOK, Late
  <1>2. f.envelope = Hello(c, f.rid, f.rid) /\ f.envelope.identity = c
    BY <1>1, HelloIs
  <1> DEFINE a == [s.active EXCEPT !.phase = "WaitingReady", !.controller = c,
                                   !.transcript = Transcript(c, f.rid),
                                   !.key = PairingKeys(Transcript(c, f.rid))]
             n == [s EXCEPT !.active = a]
             e == HostSealed(a, 1, [t |-> "proof"])
             m == Relay(f.rid, e)
             t == HandleHello(s, f)
  <1>3. t = Push(n, m)
    BY <1>2 DEF HandleHello
  <1>4. Transcript(c, f.rid) \in Transcripts /\ PairingKeys(Transcript(c, f.rid)) \in Secrets
    BY <1>0 DEF Transcripts, Secrets
  <1>5. a \in Pairings
    BY <1>0, <1>4 DEF Pairings, Phases, Peers
  <1>6. /\ a.phase = "WaitingReady" /\ a.rid = f.rid /\ a.peer = c /\ a.controller = c
        /\ a.transcript = Transcript(c, f.rid) /\ a.key = PairingKeys(Transcript(c, f.rid))
    BY <1>0, <1>1 DEF Pairings
  <1> HIDE DEF a
  <1>7. /\ n \in Coordinators /\ n.active = a /\ n.starts = s.starts /\ n.conn = s.conn
        /\ n.terminal = s.terminal /\ n.outbound = s.outbound
    BY <1>0, <1>5 DEF Coordinators
  <1>8. e = Proof(c, f.rid) /\ e \in Seals(f.rid)
    BY <1>6, HostSeals
  <1> HIDE DEF n, e
  <1>9. m \in Messages /\ m.t = "relay" /\ m.rid = f.rid /\ m.envelope = e
    BY <1>0, <1>8, Pushed
  <1>10. e.seq = 1 /\ e.t = "sealed" /\ e.body.t = "proof" /\ e.aad.controller = c
    BY <1>8, SealFields
  <1> HIDE DEF m
  <1>11. /\ t \in Coordinators /\ t.active = a /\ t.starts = s.starts /\ t.conn = s.conn
         /\ t.terminal = s.terminal /\ t.outbound = Append(s.outbound, m)
    <2>1. /\ Push(n, m) \in Coordinators /\ Push(n, m).outbound = Append(n.outbound, m)
          /\ Push(n, m).active = n.active /\ Push(n, m).starts = n.starts
          /\ Push(n, m).conn = n.conn /\ Push(n, m).terminal = n.terminal
      BY <1>7, <1>9, PushFields
    <2> QED
      BY <1>3, <1>7, <2>1
  <1> HIDE DEF t
  <1>12. Active(t)
    BY <1>6, <1>11 DEF Active, None
  <1>13. Met(v, f.rid, c)
    BY <1>0, <1>1 DEF Good, MetOK, Late
  <1>14. SealedRelay(m) /\ ~Succeeds(m) /\ TrueMessage(m, v, G) /\ m.rid <= s.starts
    BY <1>0, <1>9, <1>10, <1>13, Limits DEF SealedRelay, Succeeds, TrueMessage, IsDecision, Rids
  <1>15. OutOK(t.outbound, s.starts, v, G, q)
    BY <1>9, <1>11, <1>14, PushOK DEF Good
  <1>16. SealedIn(t.outbound) = SealedIn(s.outbound) \cup {e}
    BY <1>0, <1>9, <1>11, <1>14, SealedAppend
  <1>17. SealsOK(t, (S \cup SealedIn(s.outbound)) \cup {e})
    <2>1. PICK X : X = S \cup SealedIn(s.outbound)
      OBVIOUS
    <2>2. SealsOK(s, X)
      BY <2>1 DEF Good
    <2>3. \A x \in X : x.rid # s.starts
      BY <2>2 DEF SealsOK, Verified
    <2>4. SealsOK(t, X \cup {e})
      BY <1>0, <1>6, <1>8, <1>10, <1>11, <2>2, <2>3, SealsMore DEF Verified
    <2> QED
      BY <2>1, <2>4
  <1>18. ActiveOK(t) /\ MetOK(t, v) /\ ProvedOK(t, said)
    BY <1>0, <1>1, <1>2, <1>6, <1>11, <1>13 DEF ActiveOK, MetOK, ProvedOK, Late, Verified
  <1>19. S \cup SealedIn(t.outbound) = (S \cup SealedIn(s.outbound)) \cup {e}
    BY <1>16
  <1>20. Good(t, said, S, v, G, q)
    BY <1>11, <1>15, <1>17, <1>18, <1>19 DEF Good
  <1>21. t.active.phase = "WaitingReady" /\ t.active.peer = s.active.peer
    BY <1>1, <1>6, <1>11
  <1>22. \E w \in Messages : w.t = "relay" /\ w.rid = f.rid /\ t.outbound = Append(s.outbound, w)
    BY <1>9, <1>11
  <1> QED
    BY <1>11, <1>12, <1>20, <1>21, <1>22 DEF t

(* The confirmation is heard.                                              *)
LEMMA ReadyGood ==
    ASSUME NEW s, NEW said, NEW S, NEW v, NEW G, NEW q, Good(s, said, S, v, G, q),
           NEW f, f.envelope \in Greetings(f.rid), f.envelope \in Range(said),
           Active(s), s.active.phase = "WaitingReady", s.active.rid = f.rid,
           VerifyReady(f.envelope, s.active)
    PROVE  /\ Good(HandleReady(s), said, S, v, G, q)
           /\ Active(HandleReady(s)) /\ HandleReady(s).active.phase = "WaitingDecision"
           /\ HandleReady(s).active.peer = s.active.peer
           /\ HandleReady(s).outbound = s.outbound /\ HandleReady(s).starts = s.starts
  <1>0. /\ s \in Coordinators /\ ActiveOK(s) /\ s.active \in Pairings
        /\ f.rid \in Rids /\ f.rid = s.starts
    BY ActiveRid DEF Good
  <1>1. /\ s.active.key = PairingKeys(Transcript(s.active.controller, f.rid))
        /\ Hello(s.active.controller, f.rid, f.rid) \in Range(said)
        /\ Met(v, s.active.rid, s.active.peer)
    BY <1>0 DEF ActiveOK, Verified, Late, Good, ProvedOK, MetOK
  <1>2. f.envelope = Ready(s.active.controller, f.rid)
    BY <1>1, ReadyIs
  <1> DEFINE a == [s.active EXCEPT !.phase = "WaitingDecision"]
             t == [s EXCEPT !.active = a, !.status = "WaitingLocalDecision"]
  <1>3. HandleReady(s) = t
    BY <1>0 DEF HandleReady
  <1>4. a \in Pairings
    BY <1>0 DEF Pairings, Phases
  <1>5. /\ a.phase = "WaitingDecision" /\ a.rid = s.active.rid /\ a.peer = s.active.peer
        /\ a.controller = s.active.controller /\ a.transcript = s.active.transcript
        /\ a.key = s.active.key
    BY <1>0 DEF Pairings
  <1> HIDE DEF a
  <1>6. /\ t \in Coordinators /\ t.active = a /\ t.starts = s.starts /\ t.conn = s.conn
        /\ t.terminal = s.terminal /\ t.outbound = s.outbound
    BY <1>0, <1>4 DEF Coordinators, Statuses
  <1> HIDE DEF t
  <1>7. ActiveOK(t) /\ MetOK(t, v) /\ ProvedOK(t, said)
    BY <1>0, <1>1, <1>2, <1>5, <1>6 DEF ActiveOK, MetOK, ProvedOK, Late, Verified
  <1>8. Good(t, said, S, v, G, q)
    BY <1>0, <1>4, <1>5, <1>6, <1>7, Advances DEF Verified
  <1>9. Active(t)
    BY <1>5, <1>6 DEF Active, None
  <1> QED
    BY <1>3, <1>5, <1>6, <1>8, <1>9

(* The decision is sealed and queued ahead of the completion.              *)
LEMMA DecideGood ==
    ASSUME NEW s, NEW said, NEW S, NEW v, NEW G, NEW q, Good(s, said, S, v, G, q),
           s.active.phase = "WaitingDecision",
           NEW status \in {"Accepted", "Rejected"}, NEW how \in {"Rejected", "Succeeded"},
           status = "Accepted" => <<s.active.controller, s.active.rid>> \in G
    PROVE  Good(Decide(s, status, how), said, S, v, G, q) /\ ~Active(Decide(s, status, how))
  <1>0. Active(s) /\ s \in Coordinators /\ ActiveOK(s) /\ s.outbound \in Seq(Messages)
    BY DEF Active, None, Good, Coordinators
  <1>1. PICK c \in Controllers, r \in Rids :
           c = s.active.controller /\ r = s.active.rid /\ r = s.starts
    BY <1>0, ActiveRid DEF ActiveOK, Late, Verified
  <1>2. /\ s.active.key = PairingKeys(Transcript(c, r))
        /\ s.active.transcript = Transcript(c, r) /\ Met(v, r, c)
    BY <1>0, <1>1 DEF ActiveOK, Verified, Late, Good, MetOK
  <1> DEFINE e == Decision(s, status)
             m == Relay(s.active.rid, e)
             w == Complete(s.active.rid, how)
             t1 == Push(s, m)
             t2 == Push(t1, w)
             t == Finish(t2, status)
             out1 == Append(s.outbound, m)
             out2 == Append(out1, w)
  <1>3. Decide(s, status, how) = t
    BY DEF Decide
  <1>4. e = Verdict(c, r, status) /\ e \in Seals(r)
    BY <1>1, <1>2, HostSeals DEF Decision
  <1>5. e.seq = 2 /\ e.t = "sealed" /\ e.body.t = "decision" /\ e.body.status = status
        /\ e.aad.controller = c
    BY <1>4, SealFields
  <1> HIDE DEF e
  <1>6. /\ m \in Messages /\ m.t = "relay" /\ m.rid = r /\ m.envelope = e
        /\ w \in Messages /\ w.t = "complete" /\ w.rid = r /\ w.how = how
    BY <1>1, <1>4, Pushed
  <1> HIDE DEF m, w
  <1>7. t1 \in Coordinators /\ t1.outbound = out1 /\ t1.active = s.active /\ t1.starts = s.starts
    BY <1>0, <1>6, PushFields
  <1> HIDE DEF t1
  <1>8. t2 \in Coordinators /\ t2.outbound = out2 /\ t2.starts = s.starts
    BY <1>6, <1>7, PushFields
  <1> HIDE DEF t2
  <1>9. t \in Coordinators /\ t.outbound = out2 /\ t.starts = s.starts /\ t.active = None
    BY <1>8, FinishFields DEF Statuses
  <1> HIDE DEF t
  <1>10. ~Active(t)
    BY <1>9 DEF Active
  <1>11. r <= s.starts
    BY <1>1, Limits DEF Rids
  <1>12. SealedRelay(m) /\ IsDecision(m) /\ ~Succeeds(m) /\ TrueMessage(m, v, G)
    BY <1>1, <1>2, <1>5, <1>6 DEF SealedRelay, IsDecision, Succeeds, TrueMessage
  <1>13. OutOK(out1, s.starts, v, G, q)
    BY <1>6, <1>11, <1>12, PushOK DEF Good
  <1>14. out1 \in Seq(Messages) /\ Len(out1) > 0 /\ out1[Len(out1)] = m
    BY <1>0, <1>6
  <1>15. ~SealedRelay(w) /\ TrueMessage(w, v, G)
    BY <1>2, <1>6 DEF SealedRelay, IsDecision, TrueMessage, Met
  <1>16. SealedIn(out1) = SealedIn(s.outbound) \cup {e}
    BY <1>0, <1>6, <1>12, SealedAppend
  <1> HIDE DEF out1
  <1>17. OutOK(out2, s.starts, v, G, q)
    BY <1>6, <1>11, <1>12, <1>13, <1>14, <1>15, PushOK
  <1>18. SealedIn(out2) = SealedIn(out1)
    BY <1>6, <1>14, <1>15, SealedAppend
  <1> HIDE DEF out2
  <1>19. SealsOK(t, (S \cup SealedIn(s.outbound)) \cup {e})
    <2>1. PICK X : X = S \cup SealedIn(s.outbound)
      OBVIOUS
    <2>2. SealsOK(s, X)
      BY <2>1 DEF Good
    <2>3. \A x \in X : x.rid = s.starts => x.seq = 1
      BY <1>0, <2>2 DEF SealsOK
    <2>4. SealsOK(t, X \cup {e})
      BY <1>1, <1>4, <1>5, <1>9, <1>10, <2>2, <2>3, SealsMore
    <2> QED
      BY <2>1, <2>4
  <1>20. S \cup SealedIn(t.outbound) = (S \cup SealedIn(s.outbound)) \cup {e}
    BY <1>9, <1>16, <1>18
  <1>21. Good(t, said, S, v, G, q)
    BY <1>9, <1>10, <1>17, <1>19, <1>20 DEF Good, ActiveOK, ProvedOK, MetOK
  <1> QED
    BY <1>3, <1>10, <1>21

LEMMA DecideFields ==
    ASSUME NEW s \in Coordinators, ActiveOK(s), Active(s), s.active.phase = "WaitingDecision",
           NEW status \in {"Accepted", "Rejected"}, NEW how \in {"Rejected", "Succeeded"}
    PROVE  LET t == Decide(s, status, how)
           IN  t.starts = s.starts /\ t.conn = s.conn
  BY DEF Decide, Push, Finish, Coordinators

(* What a method leaves: a good coordinator of the same pairing.           *)
Outcome(s, t, said, S, v, G, q) ==
    /\ Good(t, said, S, v, G, q) /\ t.starts = s.starts /\ (t.conn => s.conn)

(* A pairing that ended is good, and matters to no layer.                  *)
LEMMA ClosesOutcome ==
    ASSUME NEW s, NEW said, NEW S, NEW v, NEW G, NEW q, Good(s, said, S, v, G, q),
           NEW t, Closes(s, t)
    PROVE  Outcome(s, t, said, S, v, G, q) /\ ~Active(t)
  BY ClosesGood DEF Outcome, Closes, Active

(* A decision is made while it is waited for.                              *)
LEMMA DecideOutcome ==
    ASSUME NEW s, NEW said, NEW S, NEW v, NEW G, NEW q, Good(s, said, S, v, G, q),
           NEW r, NEW c, WaitingDecision(s, r, c),
           NEW status \in {"Accepted", "Rejected"}, NEW how \in {"Rejected", "Succeeded"},
           status = "Accepted" => <<c, r>> \in G
    PROVE  LET t == Decide(s, status, how)
           IN  Outcome(s, t, said, S, v, G, q) /\ ~Active(t)
  <1>1. /\ s.active.phase = "WaitingDecision" /\ s \in Coordinators /\ ActiveOK(s)
        /\ s.active.rid = r /\ s.active.controller = c
    BY DEF WaitingDecision, Good
  <1>2. Active(s)
    BY <1>1 DEF Active, None
  <1>3. Good(Decide(s, status, how), said, S, v, G, q) /\ ~Active(Decide(s, status, how))
    BY <1>1, DecideGood
  <1>4. Decide(s, status, how).starts = s.starts /\ Decide(s, status, how).conn = s.conn
    BY <1>1, <1>2, DecideFields
  <1> QED
    BY <1>3, <1>4 DEF Outcome

(* What the local user's calls on a pairing do.                            *)
LEMMA TickOutcome ==
    ASSUME NEW s, NEW said, NEW S, NEW v, NEW G, NEW q, Good(s, said, S, v, G, q)
    PROVE  /\ Outcome(s, Tick(s), said, S, v, G, q)
           /\ Tick(s) = s \/ ~Active(Tick(s))
  <1>1. s \in Coordinators /\ ActiveOK(s)
    BY DEF Good
  <1> QED
    BY <1>1, TickOK, ClosesOutcome DEF Outcome

LEMMA AcceptOutcome ==
    ASSUME NEW s, NEW said, NEW S, NEW v, NEW G, NEW q, Good(s, said, S, v, G, q),
           NEW r, NEW c, NEW stored \in BOOLEAN,
           WaitingDecision(Tick(s), r, c) /\ stored => <<c, r>> \in G
    PROVE  LET t == Accept(s, r, c, stored)
           IN  Outcome(s, t, said, S, v, G, q) /\ (t = s \/ ~Active(t))
  <1> DEFINE t == Accept(s, r, c, stored)
  <1>1. CASE ~WaitingDecision(Tick(s), r, c)
    <2>1. t = Tick(s)
      BY <1>1 DEF Accept
    <2> QED
      BY <2>1, TickOutcome
  <1>2. CASE WaitingDecision(Tick(s), r, c)
    <2>1. Active(Tick(s)) /\ s \in Coordinators /\ ActiveOK(s)
      BY <1>2 DEF WaitingDecision, Active, None, Good
    <2>2. Tick(s) = s /\ Active(s)
      BY <2>1, TickOK
    <2>3. CASE ~stored
      <3>1. t = FailActive(s)
        BY <1>2, <2>2, <2>3 DEF Accept
      <3>2. Closes(s, t)
        BY <2>1, <2>2, <3>1, Ends
      <3> QED
        BY <3>2, ClosesOutcome
    <2>4. CASE stored
      <3>1. t = Decide(s, "Accepted", "Succeeded")
        BY <1>2, <2>2, <2>4 DEF Accept
      <3>2. WaitingDecision(s, r, c) /\ <<c, r>> \in G
        BY <1>2, <2>2, <2>4
      <3>3. \A status \in {"Accepted", "Rejected"}, how \in {"Rejected", "Succeeded"} :
              Outcome(s, Decide(s, status, how), said, S, v, G, q) /\ ~Active(Decide(s, status, how))
        BY <3>2, DecideOutcome
      <3> QED
        BY <3>1, <3>3
    <2> QED
      BY <2>3, <2>4
  <1> QED
    BY <1>1, <1>2

LEMMA RejectOutcome ==
    ASSUME NEW s, NEW said, NEW S, NEW v, NEW G, NEW q, Good(s, said, S, v, G, q), NEW r, NEW c
    PROVE  LET t == Reject(s, r, c)
           IN  Outcome(s, t, said, S, v, G, q) /\ (t = s \/ ~Active(t))
  <1> DEFINE t == Reject(s, r, c)
  <1>1. CASE ~WaitingDecision(Tick(s), r, c)
    <2>1. t = Tick(s)
      BY <1>1 DEF Reject
    <2> QED
      BY <2>1, TickOutcome
  <1>2. CASE WaitingDecision(Tick(s), r, c)
    <2>1. Active(Tick(s)) /\ s \in Coordinators /\ ActiveOK(s)
      BY <1>2 DEF WaitingDecision, Active, None, Good
    <2>2. Tick(s) = s
      BY <2>1, TickOK
    <2>3. t = Decide(s, "Rejected", "Rejected") /\ WaitingDecision(s, r, c)
      BY <1>2, <2>2 DEF Reject
    <2>4. \A status \in {"Rejected"}, how \in {"Rejected", "Succeeded"} :
            Outcome(s, Decide(s, status, how), said, S, v, G, q) /\ ~Active(Decide(s, status, how))
      BY <2>3, DecideOutcome
    <2> QED
      BY <2>3, <2>4
  <1> QED
    BY <1>1, <1>2

LEMMA CancelOutcome ==
    ASSUME NEW s, NEW said, NEW S, NEW v, NEW G, NEW q, Good(s, said, S, v, G, q), NEW r
    PROVE  LET t == Cancel(s, r)
           IN  Outcome(s, t, said, S, v, G, q) /\ (t = s \/ ~Active(t))
  <1> DEFINE t == Cancel(s, r)
  <1>1. CASE Active(s) /\ s.active.rid = r
    <2>1. t = Abandon(s, "Cancelled") /\ s \in Coordinators /\ ActiveOK(s)
      BY <1>1 DEF Cancel, Good
    <2>2. Closes(s, t)
      BY <1>1, <2>1, Ends DEF Statuses
    <2> QED
      BY <2>2, ClosesOutcome
  <1>2. CASE ~(Active(s) /\ s.active.rid = r)
    BY <1>2 DEF Cancel, Outcome
  <1> QED
    BY <1>1, <1>2

(* A new pairing is the next one; its creation is queued last.             *)
LEMMA StartGood ==
    ASSUME NEW s, NEW said, NEW S, NEW v, NEW G, NEW q, Good(s, said, S, v, G, q),
           s.starts < MaxStarts, clock \in Nat, NEW kind \in Kinds, NEW ok \in BOOLEAN,
           v[s.starts + 1].state = "absent",
           \A i \in 1..Len(q) : q[i].o.rid <= s.starts
    PROVE  LET t == Start(s, kind, ok)
           IN  \/ /\ Good(t, said, S, v, G, q) /\ t.starts = s.starts
                  /\ t = s \/ ~Active(t)
                  /\ t.conn => s.conn
               \/ /\ Good(t, <<>>, {}, v, G, q) /\ t.starts = s.starts + 1
                  /\ Active(t) /\ s.conn
                  /\ t.active.phase = "Creating" /\ t.outbound # <<>>
                  /\ t.outbound[Len(t.outbound)].t = "create"
                  /\ t.outbound[Len(t.outbound)].rid = t.starts
  <1> DEFINE t == Start(s, kind, ok)
             r == s.starts + 1
             i == ReturnToIdle(s)
  <1>0. /\ s \in Coordinators /\ s.starts \in Nat /\ r \in Rids /\ r \in 0..MaxStarts
        /\ 0 \in 0..MaxStarts /\ s.outbound \in Seq(Messages)
    BY Limits DEF Good, Coordinators, Rids
  <1>1. CASE ~s.conn \/ Active(s)
    BY <1>1 DEF Start
  <1>2. ASSUME s.conn, ~Active(s)
        PROVE  /\ i \in Coordinators /\ i.active = None /\ i.starts = s.starts
               /\ i.outbound = s.outbound /\ i.conn
    BY <1>0, <1>2 DEF ReturnToIdle, Coordinators, Statuses, Active
  <1>3. CASE s.conn /\ ~Active(s) /\ ~ok
    <2>1. t = i
      BY <1>3 DEF Start
    <2>2. Closes(s, i)
      BY <1>2, <1>3 DEF Closes
    <2> QED
      BY <1>2, <1>3, <2>1, <2>2, ClosesGood DEF Closes, Active
  <1>4. CASE s.conn /\ ~Active(s) /\ ok
    <2> DEFINE a == [phase |-> "Creating", rid |-> r, kind |-> kind,
                     exp |-> clock + Lifetime, serverExp |-> 0,
                     peer |-> Host, controller |-> Host, transcript |-> None, key |-> None]
               n == [i EXCEPT !.active = a, !.terminal = 0, !.status = "Creating", !.starts = r]
               m == Create(a)
    <2>1. a \in Pairings /\ a.rid = r /\ a.phase = "Creating" /\ a.kind = kind
      BY <1>0, Limits DEF Pairings, Phases, Peers, Transcripts, Secrets
    <2>2. m \in Messages /\ m.t = "create" /\ m.rid = r
      BY <1>0, <2>1 DEF Create, Messages
    <2>3. t = Push(n, m)
      BY <1>2, <1>4 DEF Start
    <2> HIDE DEF a, i, m, r
    <2>4. /\ n \in Coordinators /\ n.active = a /\ n.starts = r /\ n.outbound = s.outbound
          /\ n.conn = TRUE /\ n.terminal = 0
      BY <1>0, <1>2, <1>4, <2>1 DEF Coordinators, Statuses
    <2> HIDE DEF n
    <2>5. /\ t \in Coordinators /\ t.active = a /\ t.starts = r /\ t.conn = TRUE
          /\ t.terminal = 0 /\ t.outbound = Append(s.outbound, m)
      <3>1. /\ Push(n, m) \in Coordinators /\ Push(n, m).outbound = Append(n.outbound, m)
            /\ Push(n, m).active = n.active /\ Push(n, m).starts = n.starts
            /\ Push(n, m).conn = n.conn /\ Push(n, m).terminal = n.terminal
        BY <2>2, <2>4, PushFields
      <3> QED
        BY <2>3, <2>4, <3>1
    <2> HIDE DEF t
    <2>6. Active(t)
      BY <2>1, <2>5 DEF Active, None
    <2>7. ActiveOK(t) /\ ProvedOK(t, <<>>) /\ MetOK(t, v)
      BY <2>1, <2>5 DEF ActiveOK, ProvedOK, MetOK, Late, Verified
    <2>8. ~SealedRelay(m) /\ ~Succeeds(m) /\ TrueMessage(m, v, G)
      BY <2>2 DEF SealedRelay, Succeeds, TrueMessage, IsDecision, r
    <2>9. SealedIn(t.outbound) = SealedIn(s.outbound)
      BY <1>0, <2>2, <2>5, <2>8, SealedAppend
    <2>10. SealsOK(t, {} \cup SealedIn(t.outbound))
      <3>1. SealsOK(s, S \cup SealedIn(s.outbound))
        BY DEF Good
      <3>2. \A x \in SealedIn(s.outbound) :
               x.rid \in Rids /\ x.rid <= s.starts /\ x \in Seals(x.rid)
        BY <3>1 DEF SealsOK
      <3>3. \A k \in Rids : k <= s.starts => k <= r /\ k # r
        BY <1>0, Limits DEF r, Rids
      <3>4. \A x, y \in SealedIn(s.outbound) : x.rid = y.rid /\ x.seq = y.seq => x = y
        BY <3>1 DEF SealsOK
      <3> QED
        BY <2>5, <2>9, <3>2, <3>3, <3>4 DEF SealsOK
    <2>11. OutOK(t.outbound, r, v, G, q)
      <3>1. PICK len \in Nat : len = Len(s.outbound)
        BY <1>0
      <3>2. /\ t.outbound \in Seq(Messages) /\ Len(t.outbound) = len + 1
            /\ \A j \in 1..len : t.outbound[j] = s.outbound[j]
            /\ t.outbound[len + 1] = m
        BY <1>0, <2>2, <2>5, <3>1
      <3>3. \A j \in 1..len + 1 : j \in 1..len \/ j = len + 1
        BY <3>1
      <3>4. \A j \in 1..len : s.outbound[j].rid \in Rids /\ s.outbound[j].rid <= s.starts
        BY <1>0, <3>1, MessageParts DEF Good, OutOK
      <3>5. \A k \in Rids : k <= s.starts => k <= r /\ k # r
        BY <1>0, Limits DEF r, Rids
      <3>6. r <= r
        BY <1>0 DEF r
      <3>7. \A j \in 1..len + 1 : t.outbound[j].rid <= r /\ TrueMessage(t.outbound[j], v, G)
        BY <2>2, <2>8, <3>1, <3>2, <3>3, <3>4, <3>5, <3>6 DEF Good, OutOK
      <3>8. \A j, k \in 1..len + 1 :
              t.outbound[j].t = "create" /\ t.outbound[k].t = "create"
                /\ t.outbound[j].rid = t.outbound[k].rid => j = k
        <4>1. \A j, k \in 1..len :
                s.outbound[j].t = "create" /\ s.outbound[k].t = "create"
                  /\ s.outbound[j].rid = s.outbound[k].rid => j = k
          BY <3>1 DEF Good, OutOK
        <4>2. \A j \in 1..len : s.outbound[j].rid # m.rid
          BY <2>2, <3>4, <3>5
        <4> QED
          BY <3>2, <3>3, <4>1, <4>2
      <3>9. \A j \in 1..Len(q), k \in 1..len + 1 :
              q[j].o.t = "create" /\ t.outbound[k].t = "create" => q[j].o.rid # t.outbound[k].rid
        <4>1. \A j \in 1..Len(q) : q[j].o.rid # r
          BY <1>0, <2>2 DEF r
        <4> QED
          BY <2>2, <3>1, <3>2, <3>3, <4>1 DEF Good, OutOK
      <3>10. ASSUME NEW j \in 1..len + 1, Succeeds(t.outbound[j])
             PROVE  Announced(t.outbound, j)
        <4>1. j \in 1..len /\ Announced(s.outbound, j)
          BY <2>8, <3>1, <3>2, <3>3, <3>10 DEF Good, OutOK
        <4>2. j - 1 \in 1..len
          BY <3>1, <4>1 DEF Announced
        <4> QED
          BY <3>2, <4>1, <4>2 DEF Announced
      <3> QED
        BY <3>2, <3>7, <3>8, <3>9, <3>10 DEF OutOK
    <2>12. Good(t, <<>>, {}, v, G, q)
      BY <2>5, <2>7, <2>10, <2>11 DEF Good
    <2>13. t.outbound # <<>> /\ t.outbound[Len(t.outbound)] = m
      BY <1>0, <2>2, <2>5
    <2>14. t.starts = s.starts + 1
      BY <2>5 DEF r
    <2> QED
      BY <1>4, <2>1, <2>2, <2>5, <2>6, <2>12, <2>13, <2>14 DEF t
  <1> QED
    BY <1>1, <1>3, <1>4

----------------------------------------------------------------------------
(* Frames from the service.                                                *)

(* What a frame has by its kind.                                           *)
LEMMA FrameParts ==
    ASSUME NEW f \in FrameTypes
    PROVE  /\ f.t \in {"created", "joined", "routed", "closed", "error"}
           /\ f.t # "error" => f.rid \in Rids
           /\ f.t = "created" => f.exp \in Int
           /\ f.t = "joined" => f.exp \in Int /\ f.peer \in Controllers
           /\ f.t = "routed" => f.sender \in Controllers /\ f.envelope \in Greetings(f.rid)
           /\ f.t = "closed" => f.how \in {"Rejected", "Succeeded", "Expired", "Disconnected"}
  <1>1. CASE f \in RoutedFrames
    <2>1. PICK r \in Rids :
            f \in [t : {"routed"}, rid : {r}, sender : Controllers, envelope : Greetings(r)]
      BY <1>1 DEF RoutedFrames
    <2> QED
      BY <2>1
  <1> QED
    BY <1>1 DEF FrameTypes

(* What a frame on its way to the Host says is true.                       *)
FrameOK(f, k, said, v) ==
    /\ f \in FrameTypes
    /\ f.t # "error" => f.rid <= k
    /\ f.t = "joined" => Met(v, f.rid, f.peer)
    /\ f.t = "routed" /\ f.rid = k => f.envelope \in Range(said)

(* Receiving is a step of the protocol.                                    *)
LEMMA AfterFrameOK ==
    ASSUME NEW p \in Protocols, NEW f \in FrameTypes, Fits(p, f)
    PROVE  /\ AfterFrame(p, f) \in Protocols
           /\ AfterFrame(p, f) # None => p # None /\ AfterFrame(p, f).rid = p.rid
  <1>0. /\ f.t \in {"created", "joined", "routed", "closed", "error"}
        /\ f.t \in {"created", "joined"} => f.exp \in Int
        /\ f.t = "joined" => f.peer \in Controllers
    BY FrameParts
  <1>1. CASE f.t = "created"
    <2>1. AfterFrame(p, f) = [p EXCEPT !.phase = "Inviting", !.exp = f.exp]
      BY <1>1 DEF AfterFrame
    <2>2. p # None
      BY <1>1 DEF Fits, CreatedFits, None
    <2> QED
      BY <1>0, <1>1, <2>1, <2>2 DEF Protocols
  <1>2. CASE f.t = "joined"
    <2>1. AfterFrame(p, f) = [p EXCEPT !.phase = "Joined", !.peer = f.peer]
      BY <1>2 DEF AfterFrame
    <2>2. p # None
      BY <1>2 DEF Fits, JoinedFits, None
    <2> QED
      BY <1>0, <1>2, <2>1, <2>2 DEF Protocols, Peers
  <1>3. CASE f.t \in {"routed", "closed", "error"}
    <2>1. AfterFrame(p, f) \in {p, None}
      BY <1>3 DEF AfterFrame
    <2> QED
      BY <2>1 DEF Protocols
  <1> QED
    BY <1>0, <1>1, <1>2, <1>3

(* A new creation is still to be sent, or the protocol is where the        *)
(* pairing is, with all but one relay of it sent.                          *)
Pristine(s, p) ==
    /\ s.active.phase = "Creating" /\ s.outbound # <<>>
    /\ s.outbound[Len(s.outbound)].t = "create"
    /\ s.outbound[Len(s.outbound)].rid = s.starts
    /\ p # None => p.rid < s.starts
Matches(s, p) ==
    /\ p # None /\ p.rid = s.starts
    /\ s.active.phase = "Creating" => p.phase \in {"Creating", "Inviting", "Joined"}
    /\ s.active.phase = "Inviting" => p.phase = "Inviting" /\ p.exp = s.active.serverExp
    /\ s.active.phase \in Late => p.phase = "Joined" /\ p.peer = s.active.peer
InStep(s, p) == Matches(s, p) /\ s.outbound = <<>>
Sendable(s, p) ==
    /\ Matches(s, p)
    /\ \/ s.outbound = <<>>
       \/ /\ s.active.phase \in Late /\ Len(s.outbound) = 1
          /\ s.outbound[1].t = "relay" /\ s.outbound[1].rid = s.starts
Layered(s, p) == Active(s) => Pristine(s, p) \/ InStep(s, p)

(* What each event leaves.                                                 *)
LEMMA CreatedOutcome ==
    ASSUME NEW s, NEW said, NEW S, NEW v, NEW G, NEW q, Good(s, said, S, v, G, q),
           NEW f, f.rid \in Rids, f.rid <= s.starts, f.exp \in Int, clock \in Nat
    PROVE  LET t == HandleCreated(s, f)
           IN  /\ Outcome(s, t, said, S, v, G, q)
               /\ Active(t) => \/ t = s
                               \/ /\ f.rid = s.starts /\ t.active.phase = "Inviting"
                                  /\ t.active.serverExp = f.exp /\ t.outbound = s.outbound
                                  /\ s.active.phase = "Creating"
  <1> DEFINE t == HandleCreated(s, f)
  <1>0. s \in Coordinators /\ Good(t, said, S, v, G, q)
    BY CreatedGood DEF Good
  <1>1. CASE ~Active(s) /\ s.cancelled = f.rid
    <2>1. t = Push([s EXCEPT !.cancelled = 0], Complete(f.rid, "Rejected"))
      BY <1>1 DEF HandleCreated, Active, None
    <2>2. t.active = s.active /\ t.starts = s.starts /\ t.conn = s.conn
      BY <1>0, <2>1 DEF Push, Coordinators
    <2> QED
      BY <1>0, <1>1, <2>2 DEF Outcome, Active
  <1>2. CASE ~(~Active(s) /\ s.cancelled = f.rid) /\ t # s
    <2> DEFINE a == [s.active EXCEPT !.phase = "Inviting", !.serverExp = f.exp,
                             !.exp = IF f.exp < s.active.exp THEN f.exp ELSE s.active.exp]
    <2>1. t = [s EXCEPT !.status = "Inviting", !.active = a] /\ s.active.phase = "Creating"
          /\ s.active.rid = f.rid
      BY <1>2 DEF HandleCreated
    <2>2. Active(s)
      BY <2>1 DEF Active, None
    <2>3. s.active \in Pairings /\ s.active.rid = s.starts
      BY <1>0, <2>2, ActiveRid DEF Good
    <2>4. a.phase = "Inviting" /\ a.serverExp = f.exp
      BY <2>3 DEF Pairings
    <2> HIDE DEF a
    <2>5. t.active = a /\ t.starts = s.starts /\ t.conn = s.conn /\ t.outbound = s.outbound
      BY <1>0, <2>1 DEF Coordinators
    <2> QED
      BY <1>0, <2>1, <2>3, <2>4, <2>5 DEF Outcome
  <1>3. CASE t = s
    BY <1>3 DEF Outcome
  <1> QED
    BY <1>1, <1>2, <1>3

LEMMA JoinedOutcome ==
    ASSUME NEW s, NEW said, NEW S, NEW v, NEW G, NEW q, Good(s, said, S, v, G, q),
           NEW f, f.peer \in Controllers, Met(v, f.rid, f.peer)
    PROVE  LET t == HandleJoined(s, f)
           IN  /\ Outcome(s, t, said, S, v, G, q)
               /\ Active(t) =>
                    \/ /\ t = s
                       /\ \/ s.active.phase # "Inviting" \/ s.active.rid # f.rid
                          \/ s.active.serverExp # f.exp
                          \/ s.active.exp <= clock \/ f.peer = Host
                    \/ /\ f.rid = s.starts /\ t.active.phase = "WaitingHello"
                       /\ t.active.peer = f.peer /\ s.active.phase = "Inviting"
                       /\ \/ t.outbound = s.outbound
                          \/ t.outbound = Append(s.outbound, Relay(s.starts, Invitation))
  <1> DEFINE t == HandleJoined(s, f)
             a == [s.active EXCEPT !.phase = "WaitingHello", !.peer = f.peer]
             j == [s EXCEPT !.status = "VerifyingController", !.active = a]
             m == Relay(f.rid, [t |-> "invitation"])
  <1>0. s \in Coordinators /\ Good(t, said, S, v, G, q)
    BY JoinedGood DEF Good
  <1>1. CASE \/ s.active.phase # "Inviting" \/ s.active.rid # f.rid
             \/ s.active.serverExp # f.exp
             \/ s.active.exp <= clock \/ f.peer = Host
    <2>1. t = s
      BY <1>1 DEF HandleJoined
    <2> QED
      BY <1>1, <2>1 DEF Outcome
  <1>2. CASE ~(\/ s.active.phase # "Inviting" \/ s.active.rid # f.rid
               \/ s.active.serverExp # f.exp
               \/ s.active.exp <= clock \/ f.peer = Host)
    <2>1. t \in {j, Push(j, m)}
      BY <1>2 DEF HandleJoined
    <2>2. Active(s)
      BY <1>2 DEF Active, None
    <2>3. s.active \in Pairings /\ f.rid = s.starts
      BY <1>0, <1>2, <2>2, ActiveRid DEF Good
    <2>4. a.phase = "WaitingHello" /\ a.peer = f.peer
      BY <2>3 DEF Pairings
    <2> HIDE DEF a
    <2>5. j.active = a /\ j.starts = s.starts /\ j.conn = s.conn /\ j.outbound = s.outbound
      BY <1>0 DEF Coordinators
    <2>6. m = Relay(s.starts, Invitation)
      BY <2>3 DEF Invitation
    <2>7. /\ Push(j, m).active = j.active /\ Push(j, m).starts = j.starts
          /\ Push(j, m).conn = j.conn /\ Push(j, m).outbound = Append(j.outbound, m)
      BY <1>0 DEF Push, Coordinators
    <2> QED
      BY <1>0, <1>2, <2>1, <2>3, <2>4, <2>5, <2>6, <2>7 DEF Outcome
  <1> QED
    BY <1>1, <1>2

LEMMA RoutedOutcome ==
    ASSUME NEW s, NEW said, NEW S, NEW v, NEW G, NEW q, Good(s, said, S, v, G, q),
           NEW f, f.envelope \in Greetings(f.rid), f.rid = s.starts => f.envelope \in Range(said)
    PROVE  LET t == HandleRouted(s, f)
           IN  /\ Outcome(s, t, said, S, v, G, q)
               /\ Active(t) =>
                    /\ Active(s) /\ t.active.phase \in Verified /\ s.active.phase \in Late
                    /\ t.active.peer = s.active.peer /\ f.rid = s.starts
                    /\ \/ t.outbound = s.outbound
                       \/ \E m \in Messages : /\ m.t = "relay" /\ m.rid = s.starts
                                              /\ t.outbound = Append(s.outbound, m)
  <1> DEFINE t == HandleRouted(s, f)
             a == s.active
             ours == Active(s) /\ a.rid = f.rid /\ a.peer = f.sender
             hello == ours /\ a.phase = "WaitingHello" /\ VerifyHello(f.envelope, f.sender, a.rid)
             ready == ours /\ a.phase = "WaitingReady" /\ VerifyReady(f.envelope, a)
  <1>0. s \in Coordinators /\ ActiveOK(s) /\ (ours => f.rid = s.starts)
    BY ActiveRid DEF Good
  <1>1. CASE hello
    <2>1. t = HandleHello(s, f)
      BY <1>1 DEF HandleRouted
    <2>2. /\ f.envelope \in Range(said) /\ Active(s) /\ s.active.phase = "WaitingHello"
          /\ s.active.rid = f.rid /\ s.active.peer = f.sender
          /\ VerifyHello(f.envelope, f.sender, f.rid)
      BY <1>0, <1>1
    <2>3. /\ Good(t, said, S, v, G, q) /\ t.active.phase = "WaitingReady"
          /\ t.active.peer = s.active.peer /\ t.starts = s.starts
          /\ \E m \in Messages : /\ m.t = "relay" /\ m.rid = f.rid
                                 /\ t.outbound = Append(s.outbound, m)
      BY <2>1, <2>2, HelloGood
    <2>4. s.conn
      BY <1>0, <2>2 DEF ActiveOK
    <2> HIDE DEF t
    <2>5. Outcome(s, t, said, S, v, G, q)
      BY <2>3, <2>4 DEF Outcome
    <2> QED
      BY <1>0, <1>1, <2>2, <2>3, <2>5 DEF Verified, Late, t
  <1>2. CASE ready
    <2>1. t = HandleReady(s)
      BY <1>2 DEF HandleRouted
    <2>2. /\ f.envelope \in Range(said) /\ Active(s) /\ s.active.phase = "WaitingReady"
          /\ s.active.rid = f.rid /\ VerifyReady(f.envelope, s.active)
      BY <1>0, <1>2
    <2>3. /\ Good(t, said, S, v, G, q) /\ t.active.phase = "WaitingDecision"
          /\ t.active.peer = s.active.peer /\ t.starts = s.starts
          /\ t.outbound = s.outbound
      BY <2>1, <2>2, ReadyGood
    <2>4. s.conn
      BY <1>0, <2>2 DEF ActiveOK
    <2> HIDE DEF t
    <2>5. Outcome(s, t, said, S, v, G, q)
      BY <2>3, <2>4 DEF Outcome
    <2> QED
      BY <1>0, <1>2, <2>2, <2>3, <2>5 DEF Verified, Late, t
  <1>3. CASE ~hello /\ ~ready
    <2>1. t = IF Active(s) THEN FailActive(s) ELSE s
      BY <1>3 DEF HandleRouted
    <2>2. CASE Active(s)
      <3>1. Closes(s, t)
        BY <1>0, <2>1, <2>2, Ends
      <3> QED
        BY <3>1, ClosesOutcome
    <2>3. CASE ~Active(s)
      BY <2>1, <2>3 DEF Outcome
    <2> QED
      BY <2>2, <2>3
  <1> QED
    BY <1>1, <1>2, <1>3

LEMMA ClosedOutcome ==
    ASSUME NEW s, NEW said, NEW S, NEW v, NEW G, NEW q, Good(s, said, S, v, G, q),
           NEW f, f.how \in {"Rejected", "Succeeded", "Expired", "Disconnected"}, f.rid \in Rids
    PROVE  LET t == HandleClosed(s, f)
           IN  /\ Outcome(s, t, said, S, v, G, q)
               /\ Active(t) => t = s /\ f.rid # s.starts
  <1> DEFINE t == HandleClosed(s, f)
  <1>0. s \in Coordinators /\ ActiveOK(s)
    BY DEF Good
  <1>1. CASE s.terminal # f.rid /\ Active(s) /\ s.active.rid = f.rid
    <2>1. PICK status \in Statuses : t = Finish(s, status)
      BY <1>1 DEF HandleClosed, ClosedAs, Statuses
    <2>2. Closes(s, t)
      BY <1>0, <2>1, Ends
    <2> QED
      BY <2>2, ClosesOutcome
  <1>2. CASE ~(s.terminal # f.rid /\ Active(s) /\ s.active.rid = f.rid)
    <2>1. t = s
      BY <1>2 DEF HandleClosed
    <2>2. Active(s) => f.rid # s.starts
      BY <1>0, <1>2, ActiveRid, Limits DEF ActiveOK, Rids
    <2> QED
      BY <2>1, <2>2 DEF Outcome
  <1> QED
    BY <1>1, <1>2

(* Every event leaves a good coordinator, in step with the protocol.       *)
LEMMA EventOutcome ==
    ASSUME NEW s, NEW said, NEW S, NEW v, NEW G, NEW q, Good(s, said, S, v, G, q),
           clock \in Nat, NEW f, FrameOK(f, s.starts, said, v)
    PROVE  Outcome(s, HandleEvent(s, f), said, S, v, G, q)
  <1>0. s \in Coordinators /\ ActiveOK(s) /\ f \in FrameTypes
    BY DEF Good, FrameOK
  <1>1. PICK k : k = Tick(s)
    OBVIOUS
  <1>2. Outcome(s, k, said, S, v, G, q)
    BY <1>0, <1>1, TickOK, ClosesOutcome DEF Outcome
  <1>3. /\ Good(k, said, S, v, G, q) /\ k.starts = s.starts /\ (k.conn => s.conn)
        /\ k \in Coordinators /\ ActiveOK(k)
    BY <1>2 DEF Outcome, Good
  <1> DEFINE t == HandleEvent(s, f)
  <1> SUFFICES Outcome(k, t, said, S, v, G, q)
    BY <1>2, <1>3 DEF Outcome
  <1>4. f.t \in {"created", "joined", "routed", "closed", "error"}
    BY <1>0, FrameParts
  <1>5. CASE f.t = "created"
    <2>1. t = HandleCreated(k, f)
      BY <1>1, <1>5 DEF HandleEvent
    <2>2. f.rid \in Rids /\ f.rid <= k.starts /\ f.exp \in Int
      BY <1>0, <1>3, <1>5, FrameParts DEF FrameOK
    <2> QED
      BY <1>3, <2>1, <2>2, CreatedOutcome
  <1>6. CASE f.t = "joined"
    <2>1. t = HandleJoined(k, f)
      BY <1>1, <1>6 DEF HandleEvent
    <2>2. f.peer \in Controllers /\ Met(v, f.rid, f.peer)
      BY <1>0, <1>6, FrameParts DEF FrameOK
    <2> QED
      BY <1>3, <2>1, <2>2, JoinedOutcome
  <1>7. CASE f.t = "routed"
    <2>1. t = HandleRouted(k, f)
      BY <1>1, <1>7 DEF HandleEvent
    <2>2. f.envelope \in Greetings(f.rid) /\ (f.rid = k.starts => f.envelope \in Range(said))
      BY <1>0, <1>3, <1>7, FrameParts DEF FrameOK
    <2> QED
      BY <1>3, <2>1, <2>2, RoutedOutcome
  <1>8. CASE f.t = "closed"
    <2>1. t = HandleClosed(k, f)
      BY <1>1, <1>8 DEF HandleEvent
    <2>2. f.how \in {"Rejected", "Succeeded", "Expired", "Disconnected"} /\ f.rid \in Rids
      BY <1>0, <1>8, FrameParts
    <2> QED
      BY <1>3, <2>1, <2>2, ClosedOutcome
  <1>9. CASE f.t = "error"
    <2>1. t = IF Active(k) THEN FailActive(k) ELSE k
      BY <1>1, <1>9 DEF HandleEvent
    <2>2. Active(k) => Closes(k, FailActive(k))
      BY <1>3, Ends
    <2> QED
      BY <1>3, <2>1, <2>2, ClosesOutcome DEF Outcome
  <1> QED
    BY <1>4, <1>5, <1>6, <1>7, <1>8, <1>9

LEMMA QueueOfOne ==
    ASSUME NEW m
    PROVE  Len(Append(<<>>, m)) = 1 /\ Append(<<>>, m)[1] = m
  <1>1. <<>> \in Seq({m}) /\ Len(<<>>) = 0
    OBVIOUS
  <1> QED
    BY <1>1

(* A frame that fits the protocol moves both layers together.              *)
LEMMA EventLayer ==
    ASSUME NEW s, NEW said, NEW S, NEW v, NEW G, NEW q, Good(s, said, S, v, G, q),
           clock \in Nat, NEW f, FrameOK(f, s.starts, said, v),
           NEW p \in Protocols, Layered(s, p), Fits(p, f)
    PROVE  LET t == HandleEvent(s, f)
               u == AfterFrame(p, f)
           IN  Active(t) => Pristine(t, u) \/ Sendable(t, u)
  <1> DEFINE t == HandleEvent(s, f)
             u == AfterFrame(p, f)
  <1> SUFFICES ASSUME Active(t) PROVE Pristine(t, u) \/ Sendable(t, u)
    OBVIOUS
  <1>0. s \in Coordinators /\ ActiveOK(s) /\ f \in FrameTypes
    BY DEF Good, FrameOK
  <1>1. PICK k : k = Tick(s)
    OBVIOUS
  <1>2. Outcome(s, k, said, S, v, G, q)
    BY <1>0, <1>1, TickOK, ClosesOutcome DEF Outcome
  <1>3. /\ Good(k, said, S, v, G, q) /\ k.starts = s.starts
        /\ k \in Coordinators /\ ActiveOK(k)
    BY <1>2 DEF Outcome, Good
  <1>4. Active(k) => k = s /\ (Pristine(s, p) \/ InStep(s, p))
    BY <1>0, <1>1, TickOK DEF Layered
  <1>5. f.t \in {"created", "joined", "routed", "closed", "error"}
    BY <1>0, FrameParts
  <1>6. Outcome(s, t, said, S, v, G, q)
    BY EventOutcome
  <1>7. t.starts = s.starts /\ s.outbound \in Seq(Messages) /\ s.starts \in Nat
    BY <1>0, <1>6, Limits DEF Outcome, Coordinators
  <1>8. ASSUME t = k, u # None => p # None /\ u.rid = p.rid
        PROVE  k = s /\ (Pristine(s, p) => Pristine(t, u))
    BY <1>4, <1>8 DEF Pristine
  <1>9. u # None => p # None /\ u.rid = p.rid
    BY <1>0, AfterFrameOK
  <1>10. CASE f.t = "created"
    <2>1. t = HandleCreated(k, f)
      BY <1>1, <1>10 DEF HandleEvent
    <2>2. f.rid \in Rids /\ f.rid <= k.starts /\ f.exp \in Int
      BY <1>0, <1>3, <1>10, FrameParts DEF FrameOK
    <2>3. \/ t = k
          \/ /\ f.rid = k.starts /\ t.active.phase = "Inviting"
             /\ t.active.serverExp = f.exp /\ t.outbound = k.outbound
             /\ k.active.phase = "Creating"
      BY <1>3, <2>1, <2>2, CreatedOutcome
    <2>4. p.phase = "Creating" /\ p.rid = f.rid /\ p # None
      BY <1>10 DEF Fits, CreatedFits, None
    <2>5. u = [p EXCEPT !.phase = "Inviting", !.exp = f.exp]
      BY <1>10 DEF AfterFrame
    <2>6. u.phase = "Inviting" /\ u.exp = f.exp /\ u.rid = f.rid /\ u # None
      BY <2>4, <2>5 DEF Protocols, None
    <2> HIDE DEF t, u
    <2>7. k = s /\ (Pristine(s, p) \/ InStep(s, p))
      <3>1. Active(k)
        BY <2>3 DEF Active, None
      <3> QED
        BY <1>4, <3>1
    <2>8. CASE Pristine(s, p)
      <3>1. t = k
        BY <1>7, <2>3, <2>4, <2>7, <2>8 DEF Pristine
      <3> QED
        BY <1>8, <1>9, <2>8, <3>1
    <2>9. CASE InStep(s, p)
      <3>1. s.active.phase = "Creating" \/ t # k
        BY <2>4, <2>7, <2>9 DEF InStep, Matches, Late, Good, Coordinators, Pairings, Phases, Active, None
      <3>2. CASE t = k
        BY <1>7, <2>4, <2>6, <2>7, <2>9, <3>1, <3>2 DEF InStep, Matches, Sendable, Late
      <3>3. CASE t # k
        BY <1>7, <2>3, <2>6, <2>7, <2>9, <3>3 DEF InStep, Matches, Sendable, Late
      <3> QED
        BY <3>2, <3>3
    <2> QED
      BY <2>7, <2>8, <2>9
  <1>11. CASE f.t = "joined"
    <2>1. t = HandleJoined(k, f)
      BY <1>1, <1>11 DEF HandleEvent
    <2>2. f.peer \in Controllers /\ Met(v, f.rid, f.peer)
      BY <1>0, <1>11, FrameParts DEF FrameOK
    <2>3. \/ /\ t = k
             /\ \/ k.active.phase # "Inviting" \/ k.active.rid # f.rid
                \/ k.active.serverExp # f.exp
                \/ k.active.exp <= clock \/ f.peer = Host
          \/ /\ f.rid = k.starts /\ t.active.phase = "WaitingHello"
             /\ t.active.peer = f.peer /\ k.active.phase = "Inviting"
             /\ \/ t.outbound = k.outbound
                \/ t.outbound = Append(k.outbound, Relay(k.starts, Invitation))
      BY <1>3, <2>1, <2>2, JoinedOutcome
    <2>4. p.phase = "Inviting" /\ p.rid = f.rid /\ p # None /\ p.exp = f.exp /\ f.peer # Host
      BY <1>11 DEF Fits, JoinedFits, None
    <2>5. u = [p EXCEPT !.phase = "Joined", !.peer = f.peer]
      BY <1>11 DEF AfterFrame
    <2>6. u.phase = "Joined" /\ u.peer = f.peer /\ u.rid = f.rid /\ u # None
      BY <2>4, <2>5 DEF Protocols, None
    <2>7. Active(k)
      BY <2>3 DEF Active, None
    <2>8. k = s /\ (Pristine(s, p) \/ InStep(s, p)) /\ ~(clock >= s.active.exp)
      BY <1>0, <1>1, <1>4, <2>7, TickOK
    <2> HIDE DEF t, u
    <2>9. CASE Pristine(s, p)
      <3>1. t = k
        BY <2>3, <2>8, <2>9 DEF Pristine
      <3> QED
        BY <1>8, <1>9, <2>9, <3>1
    <2>10. CASE InStep(s, p)
      <3>0. /\ s.active.rid = s.starts /\ s.active.phase \in Phases /\ s.active.exp \in Int
            /\ s.starts \in Rids
        BY <1>0, <2>7, <2>8, ActiveRid DEF Pairings
      <3>1. s.active.phase = "Creating" \/ s.active.phase = "Inviting"
        BY <2>4, <2>10, <3>0 DEF InStep, Matches, Late, Phases
      <3>2. CASE t = k
        <4>1. s.active.phase = "Creating"
          <5>1. ~(s.active.exp <= clock)
            BY <2>8, <3>0
          <5>2. s.active.phase = "Inviting" => s.active.serverExp = f.exp
            BY <2>4, <2>10 DEF InStep, Matches
          <5>3. s.active.rid = f.rid
            BY <2>4, <2>10, <3>0 DEF InStep, Matches
          <5>4. t.active.phase # "WaitingHello"
            BY <2>8, <3>1, <3>2
          <5> QED
            BY <2>3, <2>4, <2>8, <3>1, <5>1, <5>2, <5>3, <5>4
        <4> QED
          BY <1>7, <2>4, <2>6, <2>8, <2>10, <3>2, <4>1 DEF InStep, Matches, Sendable, Late
      <3>3. CASE t # k
        <4>1. Matches(t, u)
          BY <1>7, <2>3, <2>6, <2>8, <3>3 DEF Matches, Late
        <4>2. Relay(s.starts, Invitation).t = "relay" /\ Relay(s.starts, Invitation).rid = s.starts
          BY DEF Relay
        <4>3. \/ t.outbound = <<>>
              \/ Len(t.outbound) = 1 /\ t.outbound[1] = Relay(s.starts, Invitation)
          BY <2>3, <2>8, <2>10, <3>3, QueueOfOne DEF InStep
        <4> QED
          BY <1>7, <2>3, <3>3, <4>1, <4>2, <4>3 DEF Sendable, Late
      <3> QED
        BY <3>2, <3>3
    <2> QED
      BY <2>8, <2>9, <2>10
  <1>12. CASE f.t = "routed"
    <2>1. t = HandleRouted(k, f) /\ u = p
      BY <1>1, <1>12 DEF HandleEvent, AfterFrame
    <2>2. f.envelope \in Greetings(f.rid) /\ (f.rid = k.starts => f.envelope \in Range(said))
      BY <1>0, <1>3, <1>12, FrameParts DEF FrameOK
    <2>3. /\ Active(k) /\ t.active.phase \in Verified /\ k.active.phase \in Late
          /\ t.active.peer = k.active.peer
          /\ \/ t.outbound = k.outbound
             \/ \E m \in Messages : /\ m.t = "relay" /\ m.rid = k.starts
                                    /\ t.outbound = Append(k.outbound, m)
      BY <1>3, <2>1, <2>2, RoutedOutcome
    <2> HIDE DEF t, u
    <2>4. k = s /\ InStep(s, p)
      BY <1>4, <2>3 DEF Pristine, Late
    <2>5. Matches(t, u) /\ t.active.phase \in Late
      BY <1>7, <2>1, <2>3, <2>4 DEF InStep, Matches, Late, Verified
    <2>6. \/ t.outbound = <<>>
          \/ Len(t.outbound) = 1 /\ t.outbound[1].t = "relay" /\ t.outbound[1].rid = s.starts
      BY <2>3, <2>4, QueueOfOne DEF InStep
    <2> QED
      BY <1>7, <2>5, <2>6 DEF Sendable
  <1>13. CASE f.t = "closed"
    <2>1. t = HandleClosed(k, f) /\ u = None /\ p # None /\ p.rid = f.rid
      BY <1>1, <1>13 DEF HandleEvent, AfterFrame, Fits, ClosedFits
    <2>2. f.how \in {"Rejected", "Succeeded", "Expired", "Disconnected"} /\ f.rid \in Rids
      BY <1>0, <1>13, FrameParts
    <2>3. t = k /\ f.rid # k.starts
      BY <1>3, <2>1, <2>2, ClosedOutcome
    <2> HIDE DEF t, u
    <2>4. ~InStep(s, p)
      BY <1>3, <2>1, <2>3 DEF InStep, Matches
    <2> QED
      BY <1>4, <1>8, <1>9, <2>3, <2>4
  <1>14. CASE f.t = "error"
    <2>1. t = IF Active(k) THEN FailActive(k) ELSE k
      BY <1>1, <1>14 DEF HandleEvent
    <2>2. Active(k) => Closes(k, FailActive(k))
      BY <1>3, Ends
    <2> QED
      BY <2>1, <2>2 DEF Closes, Active
  <1> QED
    BY <1>5, <1>10, <1>11, <1>12, <1>13, <1>14

----------------------------------------------------------------------------
(* The invariant.                                                          *)

(* Controller c of rendezvous r has been sent a decision.                  *)
Told(v, box, r) ==
    /\ v[r].peer \in Controllers
    /\ \E m \in box[v[r].peer] : m[1] = r /\ m[2].t = "sealed" /\ m[2].body.t = "decision"

(* The requests on their way: a success comes after its decision.          *)
Behind(q, j) == \E i \in 1..j - 1 : IsDecision(q[i].o) /\ q[i].o.rid = q[j].o.rid
RequestsOK(q, k, v, G, box) ==
    /\ \A i \in 1..Len(q) : q[i].o.rid <= k /\ TrueMessage(q[i].o, v, G)
    /\ \A i, j \in 1..Len(q) :
          q[i].o.t = "create" /\ q[j].o.t = "create" /\ q[i].o.rid = q[j].o.rid => i = j
    /\ \A j \in 1..Len(q) : Succeeds(q[j].o) =>
          v[q[j].o.rid].state = "gone" \/ Told(v, box, q[j].o.rid) \/ Behind(q, j)

(* What the service has recorded.                                          *)
RecordsOK(v, box, G) ==
    /\ \A r \in Rids : /\ v[r].state = "joined" => v[r].peer \in Controllers
                       /\ v[r].how = "Succeeded" => v[r].state = "gone" /\ Told(v, box, r)
    /\ \A c \in Controllers : \A m \in box[c] :
         (m[2].t = "sealed" /\ m[2].body.t = "decision" /\ m[2].body.status = "Accepted")
            => <<c, m[1]>> \in G
FramesOK(ahead, held, k, said, v) ==
    /\ \A i \in 1..Len(ahead) : FrameOK(ahead[i], k, said, v)
    /\ \A m \in held : FrameOK(m.f, k, said, v)
LedgerOK ==
    /\ \A c \in Controllers, r \in Rids : <<c, r>> \in granted => r <= co.starts
    /\ \A r \in Rids : srv[r].state # "absent" => r <= co.starts
    /\ GrantVerified
LayerOK ==
    /\ co.conn => link \in {"up", "lost"}
    /\ sp # None => sp.rid <= co.starts
    /\ link = "up" => Layered(co, sp)

PairingInv ==
    /\ Types /\ Good(co, sent, sealed, srv, granted, toServer)
    /\ LedgerOK /\ RecordsOK(srv, inbox, granted)
    /\ RequestsOK(toServer, co.starts, srv, granted, inbox)
    /\ FramesOK(toHost, late, co.starts, sent, srv)
    /\ LayerOK /\ NoLostWakeup

(* Later at the service: who joined stays known, and what ended stays so.  *)
Later(v, w) ==
    \A r \in Rids :
      /\ v[r].state \in {"joined", "gone"} =>
           w[r].state \in {"joined", "gone"} /\ w[r].peer = v[r].peer
      /\ v[r].state = "gone" => w[r].state = "gone"

LEMMA TrueLater ==
    ASSUME NEW m \in Messages, NEW v, NEW w, NEW G, NEW H, TrueMessage(m, v, G),
           Later(v, w), G \subseteq H, m.t = "create" => w[m.rid].state = "absent"
    PROVE  TrueMessage(m, w, H)
  <1>1. m.rid \in Rids
    BY MessageParts
  <1> QED
    BY <1>1 DEF TrueMessage, Later, Met

LEMMA GoodLater ==
    ASSUME NEW s, NEW said, NEW S, NEW v, NEW G, NEW q, Good(s, said, S, v, G, q),
           NEW more, Range(said) \subseteq Range(more),
           NEW w, Later(v, w), NEW H, G \subseteq H, NEW p,
           \A j \in 1..Len(s.outbound) : s.outbound[j].t = "create" =>
              /\ w[s.outbound[j].rid].state = "absent"
              /\ \A i \in 1..Len(p) : p[i].o.t = "create" => p[i].o.rid # s.outbound[j].rid
    PROVE  Good(s, more, S, w, H, p)
  <1>0. /\ s \in Coordinators /\ s.outbound \in Seq(Messages) /\ ActiveOK(s)
        /\ OutOK(s.outbound, s.starts, v, G, q) /\ ProvedOK(s, said)
        /\ SealsOK(s, S \cup SealedIn(s.outbound)) /\ MetOK(s, v)
    BY DEF Good, Coordinators
  <1>1. \A j \in 1..Len(s.outbound) : s.outbound[j] \in Messages
    BY <1>0
  <1>2. \A j \in 1..Len(s.outbound) : TrueMessage(s.outbound[j], w, H)
    BY <1>0, <1>1, TrueLater DEF OutOK
  <1>3. OutOK(s.outbound, s.starts, w, H, p)
    BY <1>0, <1>2 DEF OutOK
  <1>4. ProvedOK(s, more)
    BY <1>0 DEF ProvedOK
  <1>5. MetOK(s, w)
    <2> SUFFICES ASSUME Active(s), s.active.phase \in Late
                 PROVE  Met(w, s.active.rid, s.active.peer)
      BY DEF MetOK
    <2>1. s.active.rid \in Rids /\ Met(v, s.active.rid, s.active.peer)
      BY <1>0, ActiveRid DEF MetOK
    <2> QED
      BY <2>1 DEF Met, Later
  <1> QED
    BY <1>0, <1>3, <1>4, <1>5 DEF Good

LEMMA FrameLater ==
    ASSUME NEW f, NEW k, NEW said, NEW v, FrameOK(f, k, said, v),
           NEW more, Range(said) \subseteq Range(more), NEW w, Later(v, w)
    PROVE  FrameOK(f, k, more, w)
  <1>1. f.t = "joined" => f.rid \in Rids
    BY FrameParts DEF FrameOK
  <1> QED
    BY <1>1 DEF FrameOK, Later, Met

(* What was told stays told.                                               *)
LEMMA ToldLater ==
    ASSUME NEW v, NEW w, NEW box, NEW more, NEW r \in Rids, Told(v, box, r),
           w[r].peer = v[r].peer, \A c \in Controllers : box[c] \subseteq more[c]
    PROVE  Told(w, more, r)
  BY DEF Told

LEMMA RequestsLater ==
    ASSUME NEW q \in Seq(Requests), NEW k, NEW v, NEW G, NEW box, RequestsOK(q, k, v, G, box),
           NEW w, Later(v, w), NEW H, G \subseteq H,
           NEW more, \A c \in Controllers : box[c] \subseteq more[c],
           \A i \in 1..Len(q) : q[i].o.t = "create" => w[q[i].o.rid].state = "absent"
    PROVE  RequestsOK(q, k, w, H, more)
  <1>1. \A i \in 1..Len(q) : q[i].o \in Messages /\ q[i].o.rid \in Rids
    <2>1. \A i \in 1..Len(q) : q[i] \in Requests
      OBVIOUS
    <2>2. \A i \in 1..Len(q) : q[i].o \in Messages
      BY <2>1 DEF Requests
    <2> QED
      BY <2>2, MessageParts
  <1>2. \A i \in 1..Len(q) : TrueMessage(q[i].o, w, H)
    BY <1>1, TrueLater DEF RequestsOK
  <1>3. ASSUME NEW j \in 1..Len(q), Succeeds(q[j].o)
        PROVE  w[q[j].o.rid].state = "gone" \/ Told(w, more, q[j].o.rid) \/ Behind(q, j)
    <2>1. PICK r \in Rids : r = q[j].o.rid
      BY <1>1
    <2>2. v[r].state \in {"joined", "gone"}
      BY <1>3, <2>1 DEF RequestsOK, TrueMessage, Succeeds
    <2>3. w[r].peer = v[r].peer /\ (v[r].state = "gone" => w[r].state = "gone")
      BY <2>2 DEF Later
    <2>4. v[r].state = "gone" \/ Told(v, box, r) \/ Behind(q, j)
      BY <1>3, <2>1 DEF RequestsOK
    <2> QED
      BY <2>1, <2>3, <2>4, ToldLater
  <1> QED
    BY <1>2, <1>3 DEF RequestsOK

LEMMA Unmoved ==
    ASSUME NEW v
    PROVE  Later(v, v)
  BY DEF Later

(* The envelopes of the queue count as sealed.                             *)
LEMMA GoodSealed ==
    ASSUME NEW s, NEW said, NEW S, NEW v, NEW G, NEW q, Good(s, said, S, v, G, q)
    PROVE  Good(s, said, S \cup SealedIn(s.outbound), v, G, q)
  <1>1. (S \cup SealedIn(s.outbound)) \cup SealedIn(s.outbound) = S \cup SealedIn(s.outbound)
    OBVIOUS
  <1> QED
    BY <1>1 DEF Good

(* The properties that are part of the invariant.                          *)
LEMMA RecordsTruthful ==
    ASSUME RecordsOK(srv, inbox, granted)
    PROVE  DecisionTruthful
  BY DEF RecordsOK, Told, DecisionTruthful

(* A step of the coordinator by itself, within the same pairing or to its  *)
(* end, that may have stored a grant.                                      *)
LEMMA CoordinateKeeps ==
    ASSUME PairingInv, NEW t, Good(t, sent, sealed, srv, granted', toServer),
           t = co \/ ~Active(t), t.starts = co.starts, t.conn => co.conn,
           co' = t, activity' = Notified(co, t),
           sealed' \in {sealed, sealed \cup SealedIn(t.outbound)},
           granted \subseteq granted', granted' \subseteq Controllers \X Rids,
           \A c \in Controllers, r \in Rids : <<c, r>> \in granted' =>
             /\ r <= co.starts
             /\ r = co.starts => {Hello(c, r, r), Ready(c, r)} \subseteq Range(sent),
           UNCHANGED <<wire, service, faults, clock>>
    PROVE  PairingInv'
  <1>0. /\ Types /\ RecordsOK(srv, inbox, granted)
        /\ RequestsOK(toServer, co.starts, srv, granted, inbox)
        /\ FramesOK(toHost, late, co.starts, sent, srv)
        /\ LedgerOK /\ LayerOK /\ NoLostWakeup /\ Good(co, sent, sealed, srv, granted, toServer)
    BY DEF PairingInv
  <1>1. /\ co' = t /\ activity' = Notified(co, t)
        /\ link' = link /\ sp' = sp /\ reqs' = reqs /\ toServer' = toServer /\ late' = late
        /\ toHost' = toHost /\ srv' = srv /\ inbox' = inbox /\ sent' = sent /\ clock' = clock
    BY DEF wire, service
  <1>2. Types'
    BY <1>0, <1>1 DEF Types, Notified
  <1>3. Good(co', sent', sealed', srv', granted', toServer')
    BY <1>1, GoodSealed
  <1>4. LedgerOK'
    <2>1. co.starts \in Nat
      BY <1>0, Limits DEF Good, Coordinators
    <2>2. GrantVerified'
      <3> SUFFICES ASSUME NEW c \in Controllers, <<c, co.starts>> \in granted'
                   PROVE  {Hello(c, co.starts, co.starts), Ready(c, co.starts)} \subseteq Range(sent)
        BY <1>1 DEF GrantVerified
      <3>1. co.starts \in Rids
        OBVIOUS
      <3> QED
        BY <3>1
    <2> QED
      BY <1>0, <1>1, <2>2 DEF LedgerOK
  <1>5. RecordsOK(srv', inbox', granted')
    BY <1>0, <1>1 DEF RecordsOK
  <1>6. RequestsOK(toServer', co'.starts, srv', granted', inbox')
    <2>1. toServer \in Seq(Requests) /\ \A c \in Controllers : inbox[c] \subseteq inbox[c]
      BY <1>0 DEF Types
    <2>2. \A i \in 1..Len(toServer) :
            toServer[i].o.t = "create" => srv[toServer[i].o.rid].state = "absent"
      BY <1>0 DEF RequestsOK, TrueMessage
    <2>3. RequestsOK(toServer, co.starts, srv, granted', inbox)
      BY <1>0, <2>1, <2>2, Unmoved, RequestsLater
    <2> QED
      BY <1>1, <2>3
  <1>7. FramesOK(toHost', late', co'.starts, sent', srv')
    BY <1>0, <1>1
  <1>8. LayerOK'
    BY <1>0, <1>1 DEF LayerOK, Layered
  <1>9. NoLostWakeup'
    BY <1>0, <1>1 DEF NoLostWakeup, Notified
  <1> QED
    BY <1>2, <1>3, <1>4, <1>5, <1>6, <1>7, <1>8, <1>9 DEF PairingInv

----------------------------------------------------------------------------
(* The local user.                                                         *)

(* Grants are numbered with the invitations so far.                        *)
LEMMA GrantsOK ==
    ASSUME PairingInv
    PROVE  \A c \in Controllers, r \in Rids : <<c, r>> \in granted =>
             /\ r <= co.starts
             /\ r = co.starts => {Hello(c, r, r), Ready(c, r)} \subseteq Range(sent)
  BY DEF PairingInv, LedgerOK, GrantVerified

(* A grant is stored for whom the decision waits only.                     *)
LEMMA AcceptKeeps ==
    ASSUME PairingInv, NEW r \in Rids, NEW c \in Controllers, NEW stored \in BOOLEAN,
           UserAccept(r, c, stored)
    PROVE  PairingInv'
  <1>0. Good(co, sent, sealed, srv, granted, toServer) /\ granted \subseteq Controllers \X Rids
    BY DEF PairingInv, Types
  <1>1. PICK t : t = Accept(co, r, c, stored)
    OBVIOUS
  <1>2. /\ Coordinate(t) /\ UNCHANGED <<wire, service, faults, clock>>
        /\ granted' = IF WaitingDecision(Tick(co), r, c) /\ stored
                      THEN granted \cup {<<c, r>>} ELSE granted
    BY <1>1 DEF UserAccept, UserStep
  <1>3. granted \subseteq granted' /\ granted' \subseteq Controllers \X Rids
    BY <1>0, <1>2
  <1>4. Good(co, sent, sealed, srv, granted', toServer)
    <2>1. \A j \in 1..Len(co.outbound) : co.outbound[j].t = "create" =>
            /\ srv[co.outbound[j].rid].state = "absent"
            /\ \A i \in 1..Len(toServer) :
                 toServer[i].o.t = "create" => toServer[i].o.rid # co.outbound[j].rid
      BY <1>0 DEF Good, OutOK, TrueMessage
    <2> QED
      BY <1>0, <1>3, <2>1, Unmoved, GoodLater
  <1>5. WaitingDecision(Tick(co), r, c) /\ stored => <<c, r>> \in granted'
    BY <1>2
  <1>6. Outcome(co, t, sent, sealed, srv, granted', toServer) /\ (t = co \/ ~Active(t))
    BY <1>1, <1>4, <1>5, AcceptOutcome
  <1>7. WaitingDecision(Tick(co), r, c) =>
          r <= co.starts /\ {Hello(c, r, r), Ready(c, r)} \subseteq Range(sent)
    <2> SUFFICES ASSUME WaitingDecision(Tick(co), r, c)
                 PROVE  r <= co.starts /\ {Hello(c, r, r), Ready(c, r)} \subseteq Range(sent)
      OBVIOUS
    <2>1. Active(Tick(co)) /\ co \in Coordinators /\ ActiveOK(co)
      BY <1>0 DEF WaitingDecision, Active, None, Good
    <2>2. Tick(co) = co /\ Active(co)
      BY <2>1, TickOK
    <2>3. co.active.phase = "WaitingDecision" /\ co.active.rid = r /\ co.active.controller = c
      BY <2>2 DEF WaitingDecision
    <2>4. r = co.starts
      BY <2>1, <2>2, <2>3, ActiveRid
    <2>5. r <= r
      BY Limits DEF Rids
    <2> QED
      BY <1>0, <2>2, <2>3, <2>4, <2>5 DEF Good, ProvedOK, Verified
  <1>8. \A d \in Controllers, k \in Rids : <<d, k>> \in granted' =>
           /\ k <= co.starts
           /\ k = co.starts => {Hello(d, k, k), Ready(d, k)} \subseteq Range(sent)
    BY <1>2, <1>7, GrantsOK
  <1> QED
    BY <1>2, <1>3, <1>6, <1>8, CoordinateKeeps DEF Outcome, Coordinate

(* The other requests of the local user store nothing.                     *)
LEMMA UserKeeps ==
    ASSUME PairingInv, NEW r, NEW c, UserReject(r, c) \/ UserCancel(r) \/ UserStatus
    PROVE  PairingInv'
  <1>0. Good(co, sent, sealed, srv, granted, toServer) /\ granted \subseteq Controllers \X Rids
    BY DEF PairingInv, Types
  <1>1. PICK t : /\ t \in {Reject(co, r, c), Cancel(co, r), Tick(co)}
                 /\ Coordinate(t) /\ UNCHANGED <<wire, service, faults, clock>>
                 /\ granted' = granted
    BY DEF UserReject, UserCancel, UserStatus, UserStep
  <1>2. Outcome(co, t, sent, sealed, srv, granted, toServer) /\ (t = co \/ ~Active(t))
    BY <1>0, <1>1, RejectOutcome, CancelOutcome, TickOutcome
  <1>3. granted \subseteq granted' /\ granted' \subseteq Controllers \X Rids
    BY <1>0, <1>1
  <1> QED
    BY <1>0, <1>1, <1>2, <1>3, GrantsOK, CoordinateKeeps DEF Outcome, Coordinate

LEMMA StartKeeps ==
    ASSUME PairingInv, NEW kind \in Kinds, NEW endpoint, NEW random \in BOOLEAN,
           UserStart(kind, endpoint, random)
    PROVE  PairingInv'
  <1>0. /\ Types /\ RecordsOK(srv, inbox, granted)
        /\ RequestsOK(toServer, co.starts, srv, granted, inbox)
        /\ FramesOK(toHost, late, co.starts, sent, srv)
        /\ LedgerOK /\ LayerOK /\ NoLostWakeup /\ Good(co, sent, sealed, srv, granted, toServer)
    BY DEF PairingInv
  <1>1. PICK n \in Nat : n = co.starts
    BY <1>0, Limits DEF Good, Coordinators
  <1>2. n < MaxStarts /\ n + 1 \in Rids /\ n + 1 \in Nat /\ ~(n + 1 <= n)
    BY <1>1, Limits DEF UserStart, Rids
  <1>3. srv[n + 1].state = "absent"
    BY <1>0, <1>1, <1>2 DEF LedgerOK
  <1>4. \A i \in 1..Len(toServer) : toServer[i].o.rid <= n
    BY <1>0, <1>1 DEF RequestsOK
  <1>5. PICK ok \in BOOLEAN : ok = (ValidEndpoint(endpoint) /\ random)
    OBVIOUS
  <1> DEFINE t == Start(co, kind, ok)
  <1>6. /\ co' = t /\ activity' = Notified(co, t)
        /\ IF t.starts > co.starts THEN sent' = <<>> /\ sealed' = {}
           ELSE UNCHANGED <<sent, sealed>>
        /\ UNCHANGED <<wire, srv, inbox, granted, faults, clock>>
    BY <1>5 DEF UserStart
  <1>7. clock \in Nat
    BY <1>0 DEF Types
  <1>8. \/ /\ Good(t, sent, sealed, srv, granted, toServer) /\ t.starts = co.starts
           /\ t = co \/ ~Active(t)
           /\ t.conn => co.conn
        \/ /\ Good(t, <<>>, {}, srv, granted, toServer) /\ t.starts = co.starts + 1
           /\ Active(t) /\ co.conn
           /\ t.active.phase = "Creating" /\ t.outbound # <<>>
           /\ t.outbound[Len(t.outbound)].t = "create"
           /\ t.outbound[Len(t.outbound)].rid = t.starts
    BY <1>0, <1>1, <1>2, <1>3, <1>4, <1>7, StartGood
  <1> HIDE DEF t
  <1>9. CASE /\ Good(t, sent, sealed, srv, granted, toServer) /\ t.starts = co.starts
             /\ t = co \/ ~Active(t)
             /\ t.conn => co.conn
    <2>1. UNCHANGED <<sent, sealed, srv, inbox, granted>>
      BY <1>1, <1>6, <1>9
    <2>2. UNCHANGED <<wire, service, faults, clock>>
      BY <1>6, <2>1 DEF service
    <2>3. granted \subseteq granted' /\ granted' \subseteq Controllers \X Rids
      BY <1>0, <2>1 DEF Types
    <2> QED
      BY <1>6, <1>9, <2>1, <2>2, <2>3, GrantsOK, CoordinateKeeps
  <1>10. CASE /\ Good(t, <<>>, {}, srv, granted, toServer) /\ t.starts = co.starts + 1
              /\ Active(t) /\ co.conn
              /\ t.active.phase = "Creating" /\ t.outbound # <<>>
              /\ t.outbound[Len(t.outbound)].t = "create"
              /\ t.outbound[Len(t.outbound)].rid = t.starts
    <2>1. /\ co' = t /\ t.starts = n + 1 /\ sent' = <<>> /\ sealed' = {}
          /\ activity' = Notified(co, t) /\ link' = link /\ sp' = sp /\ reqs' = reqs
          /\ toServer' = toServer /\ late' = late /\ toHost' = toHost /\ srv' = srv
          /\ inbox' = inbox /\ granted' = granted /\ clock' = clock
      BY <1>1, <1>2, <1>6, <1>10 DEF wire
    <2>2. Types'
      BY <1>0, <2>1 DEF Types, Notified
    <2>3. Good(co', sent', sealed', srv', granted', toServer')
      BY <1>10, <2>1
    <2>4. \A r \in Rids : r <= n => r <= n + 1 /\ r # n + 1
      BY <1>1, Limits DEF Rids
    <2>5. LedgerOK'
      <3>1. granted \subseteq Controllers \X Rids
        BY <1>0 DEF Types
      <3>2. \A c \in Controllers : <<c, n + 1>> \notin granted
        BY <1>0, <1>1, <1>2 DEF LedgerOK
      <3>3. GrantVerified'
        BY <2>1, <3>2 DEF GrantVerified
      <3> QED
        BY <1>0, <1>1, <2>1, <2>4, <3>3 DEF LedgerOK
    <2>6. RequestsOK(toServer', co'.starts, srv', granted', inbox')
      <3>1. \A i \in 1..Len(toServer) : toServer[i] \in Requests
        BY <1>0 DEF Types
      <3>2. \A i \in 1..Len(toServer) : toServer[i].o.rid \in Rids
        BY <3>1, MessageParts DEF Requests
      <3>3. \A i \in 1..Len(toServer) : toServer[i].o.rid <= n + 1
        BY <1>4, <2>4, <3>2
      <3> QED
        BY <1>0, <2>1, <3>3 DEF RequestsOK
    <2>7. FramesOK(toHost', late', co'.starts, sent', srv')
      <3>1. ASSUME NEW f, FrameOK(f, n, sent, srv)
            PROVE  FrameOK(f, n + 1, <<>>, srv)
        <4>1. f \in FrameTypes /\ (f.t # "error" => f.rid \in Rids /\ f.rid <= n)
          BY <3>1, FrameParts DEF FrameOK
        <4> QED
          BY <2>4, <3>1, <4>1 DEF FrameOK
      <3> QED
        BY <1>0, <1>1, <2>1, <3>1 DEF FramesOK
    <2>8. LayerOK'
      <3>1. sp # None => sp.rid \in Rids
        BY <1>0 DEF Types, Protocols
      <3>2. sp # None => sp.rid <= n + 1 /\ sp.rid < n + 1
        BY <1>0, <1>1, <3>1, Limits DEF LayerOK, Rids
      <3>3. Pristine(t, sp)
        BY <1>10, <2>1, <3>2 DEF Pristine
      <3> QED
        BY <1>0, <1>10, <2>1, <3>2, <3>3 DEF LayerOK, Layered
    <2>9. NoLostWakeup'
      BY <2>1 DEF NoLostWakeup, Notified
    <2>10. RecordsOK(srv', inbox', granted')
      BY <1>0, <2>1
    <2> QED
      BY <2>2, <2>3, <2>5, <2>6, <2>7, <2>8, <2>9, <2>10 DEF PairingInv
  <1> QED
    BY <1>8, <1>9, <1>10

----------------------------------------------------------------------------
(* The task.                                                               *)

(* The queue is emptied.                                                   *)
LEMMA GoodEmptied ==
    ASSUME NEW s, NEW said, NEW S, NEW v, NEW G, NEW q, Good(s, said, S, v, G, q), NEW p
    PROVE  LET t == [s EXCEPT !.outbound = <<>>]
           IN  /\ Good(t, said, S \cup SealedIn(s.outbound), v, G, p)
               /\ t.active = s.active /\ t.starts = s.starts /\ t.conn = s.conn
               /\ t.outbound = <<>> /\ t.status = s.status
  <1> DEFINE t == [s EXCEPT !.outbound = <<>>]
  <1>0. /\ s \in Coordinators /\ ActiveOK(s) /\ ProvedOK(s, said)
        /\ SealsOK(s, S \cup SealedIn(s.outbound)) /\ MetOK(s, v)
    BY DEF Good
  <1>1. /\ t \in Coordinators /\ t.active = s.active /\ t.starts = s.starts /\ t.conn = s.conn
        /\ t.outbound = <<>> /\ t.status = s.status /\ t.terminal = s.terminal
    <2>1. <<>> \in Seq(Messages)
      OBVIOUS
    <2> QED
      BY <1>0, <2>1 DEF Coordinators
  <1> HIDE DEF t
  <1>2. OutOK(t.outbound, t.starts, v, G, p) /\ SealedIn(t.outbound) = {}
    BY <1>1 DEF OutOK, SealedIn
  <1>3. SealsOK(t, (S \cup SealedIn(s.outbound)) \cup SealedIn(t.outbound))
    BY <1>0, <1>1, <1>2 DEF SealsOK, Active
  <1>4. ActiveOK(t) /\ ProvedOK(t, said) /\ MetOK(t, v)
    BY <1>0, <1>1 DEF ActiveOK, ProvedOK, MetOK, Active
  <1>5. Good(t, said, S \cup SealedIn(s.outbound), v, G, p)
    BY <1>1, <1>2, <1>3, <1>4 DEF Good
  <1> QED
    BY <1>1, <1>5 DEF t

(* What was queued and is sent is true of the service, and in order.       *)
LEMMA RequestsSent ==
    ASSUME NEW q \in Seq(Requests), NEW k, NEW v, NEW G, NEW box, RequestsOK(q, k, v, G, box),
           NEW out, OutOK(out, k, v, G, q),
           NEW frames \in Seq(Requests), Len(frames) <= Len(out),
           \A j \in 1..Len(frames) : frames[j].o = out[j]
    PROVE  RequestsOK(q \o frames, k, v, G, box)
  <1>0. PICK a \in Nat, b \in Nat : a = Len(q) /\ b = Len(frames)
    OBVIOUS
  <1> DEFINE z == q \o frames
  <1>1. /\ Len(z) = a + b /\ \A i \in 1..a : z[i] = q[i]
        /\ \A i \in 1..a + b : i > a => z[i] = frames[i - a]
    BY <1>0
  <1>2. Len(out) \in Nat /\ \A j \in 1..b : j \in 1..Len(out)
    <2>1. Len(out) \in Nat
      BY DEF OutOK
    <2> QED
      BY <1>0, <2>1
  <1>3. \A i \in 1..a + b : i \in 1..a \/ (i > a /\ i - a \in 1..b)
    BY <1>0
  <1>4. \A i \in 1..a + b : i > a => z[i].o = out[i - a] /\ i - a \in 1..Len(out)
    BY <1>0, <1>1, <1>2, <1>3
  <1> HIDE DEF z
  <1>5. \A i \in 1..a + b : z[i].o.rid <= k /\ TrueMessage(z[i].o, v, G)
    BY <1>0, <1>1, <1>3, <1>4 DEF RequestsOK, OutOK
  <1>6. ASSUME NEW i \in 1..a + b, NEW j \in 1..a + b, z[i].o.t = "create", z[j].o.t = "create",
               z[i].o.rid = z[j].o.rid
        PROVE  i = j
    <2>1. CASE i \in 1..a /\ j \in 1..a
      BY <1>0, <1>1, <1>6, <2>1 DEF RequestsOK
    <2>2. CASE i \in 1..a /\ ~(j \in 1..a)
      BY <1>0, <1>1, <1>3, <1>4, <1>6, <2>2 DEF OutOK
    <2>3. CASE ~(i \in 1..a) /\ j \in 1..a
      BY <1>0, <1>1, <1>3, <1>4, <1>6, <2>3 DEF OutOK
    <2>4. CASE ~(i \in 1..a) /\ ~(j \in 1..a)
      <3>1. i - a = j - a
        BY <1>3, <1>4, <1>6, <2>4 DEF OutOK
      <3> QED
        BY <1>0, <3>1
    <2> QED
      BY <2>1, <2>2, <2>3, <2>4
  <1>7. ASSUME NEW j \in 1..a + b, Succeeds(z[j].o)
        PROVE  v[z[j].o.rid].state = "gone" \/ Told(v, box, z[j].o.rid) \/ Behind(z, j)
    <2>1. CASE j \in 1..a
      <3>1. v[z[j].o.rid].state = "gone" \/ Told(v, box, z[j].o.rid) \/ Behind(q, j)
        BY <1>0, <1>1, <1>7, <2>1 DEF RequestsOK
      <3>2. Behind(q, j) => Behind(z, j)
        BY <1>0, <1>1, <2>1 DEF Behind
      <3> QED
        BY <3>1, <3>2
    <2>2. CASE ~(j \in 1..a)
      <3>1. j > a /\ j - a \in 1..Len(out) /\ z[j].o = out[j - a]
        BY <1>3, <1>4, <2>2
      <3>2. Announced(out, j - a)
        BY <1>7, <3>1 DEF OutOK
      <3>3. PICK i \in 1..a + b : i = j - 1
        BY <1>0, <3>1, <3>2 DEF Announced
      <3>4. i > a /\ i - a = (j - a) - 1 /\ i \in 1..j - 1
        BY <1>0, <3>1, <3>2, <3>3 DEF Announced
      <3>5. z[i].o = out[(j - a) - 1]
        BY <1>4, <3>3, <3>4
      <3>6. IsDecision(z[i].o) /\ z[i].o.rid = z[j].o.rid
        BY <3>1, <3>2, <3>5 DEF Announced
      <3>7. Behind(z, j)
        BY <3>4, <3>6 DEF Behind
      <3> QED
        BY <3>7
    <2> QED
      BY <2>1, <2>2
  <1>8. RequestsOK(z, k, v, G, box)
    BY <1>1, <1>5, <1>6, <1>7 DEF RequestsOK
  <1> QED
    BY <1>8 DEF z

(* A drain keeps the layers together, or ends the connection.              *)
LEMMA FlushLayer ==
    ASSUME NEW s \in Coordinators, NEW p \in Protocols, NEW q \in Nat, Active(s),
           Pristine(s, p) \/ Sendable(s, p), s.active.phase \in Phases
    PROVE  LET r == Flushed(p, q, s.outbound)
           IN  r.ok => InStep([s EXCEPT !.outbound = <<>>], r.p)
  <1> DEFINE r == Flushed(p, q, s.outbound)
             t == [s EXCEPT !.outbound = <<>>]
  <1>0. /\ s.outbound \in Seq(Messages)
        /\ t.active = s.active /\ t.starts = s.starts /\ t.outbound = <<>>
    BY DEF Coordinators
  <1> HIDE DEF t
  <1>1. CASE Pristine(s, p)
    <2>1. r.ok => r.p # None /\ r.p.phase = "Creating" /\ r.p.rid = s.starts
      BY <1>0, <1>1, FlushedEnds DEF Pristine
    <2> HIDE DEF r
    <2>2. r.ok => InStep(t, r.p)
      BY <1>0, <1>1, <2>1 DEF Pristine, InStep, Matches, Late
    <2> QED
      BY <2>2 DEF t, r
  <1>2. CASE Sendable(s, p)
    <2>1. r.p = p
      <3>1. CASE s.outbound = <<>>
        BY <1>0, <3>1, FlushedEnds
      <3>2. CASE /\ s.active.phase \in Late /\ Len(s.outbound) = 1
                 /\ s.outbound[1].t = "relay" /\ s.outbound[1].rid = s.starts
        <4>1. CanSend(p, s.outbound[1])
          BY <1>2, <3>2 DEF Sendable, Matches, CanSend
        <4> QED
          BY <1>0, <3>2, <4>1, FlushedEnds
      <3> QED
        BY <1>2, <3>1, <3>2 DEF Sendable
    <2> HIDE DEF r
    <2>2. InStep(t, r.p)
      BY <1>0, <1>2, <2>1 DEF Sendable, InStep, Matches
    <2> QED
      BY <2>2 DEF t, r
  <1> QED
    BY <1>1, <1>2

LEMMA FlushKeeps ==
    ASSUME PairingInv, link = "up", NEW s, NEW p \in Protocols, NEW notified \in BOOLEAN,
           Outcome(co, s, sent, sealed, srv, granted, toServer),
           p # None => p.rid <= co.starts,
           Active(s) => Pristine(s, p) \/ Sendable(s, p),
           Flush(s, p, notified),
           toHost' \in Seq(FrameTypes),
           \A i \in 1..Len(toHost') : FrameOK(toHost'[i], co.starts, sent, srv),
           UNCHANGED <<late, service, granted, faults, clock>>
    PROVE  PairingInv'
  <1>0. /\ Types /\ RecordsOK(srv, inbox, granted)
        /\ RequestsOK(toServer, co.starts, srv, granted, inbox)
        /\ FramesOK(toHost, late, co.starts, sent, srv)
        /\ LedgerOK /\ LayerOK /\ Good(co, sent, sealed, srv, granted, toServer)
    BY DEF PairingInv
  <1>1. PICK t : t = Tick(s)
    OBVIOUS
  <1>2. PICK r : r = Flushed(p, reqs, t.outbound)
    OBVIOUS
  <1>3. PICK c : c = [t EXCEPT !.outbound = <<>>]
    OBVIOUS
  <1>4. /\ co' = c /\ activity' = notified /\ sealed' = sealed \cup SealedIn(t.outbound)
        /\ sp' = r.p /\ reqs' = r.q /\ toServer' = toServer \o r.frames
        /\ link' = (IF r.ok THEN link ELSE "lost")
        /\ late' = late /\ srv' = srv /\ inbox' = inbox /\ sent' = sent
        /\ granted' = granted /\ clock' = clock
    BY <1>1, <1>2, <1>3 DEF Flush, service
  <1>5. /\ Good(s, sent, sealed, srv, granted, toServer) /\ s.starts = co.starts
        /\ (s.conn => co.conn) /\ s \in Coordinators /\ ActiveOK(s)
    BY DEF Outcome, Good
  <1>6. Outcome(s, t, sent, sealed, srv, granted, toServer) /\ (t = s \/ ~Active(t))
    BY <1>1, <1>5, TickOutcome
  <1>7. /\ Good(t, sent, sealed, srv, granted, toServer) /\ t.starts = co.starts
        /\ (t.conn => co.conn) /\ t \in Coordinators /\ t.outbound \in Seq(Messages)
        /\ OutOK(t.outbound, co.starts, srv, granted, toServer)
    BY <1>5, <1>6 DEF Outcome, Good, Coordinators
  <1>8. Reached(r, p, t.outbound, Len(t.outbound))
    <2>1. reqs \in Nat
      BY <1>0 DEF Types
    <2> QED
      BY <1>2, <1>7, <2>1, FlushedOK
  <1>9. /\ r.p \in Protocols /\ r.q \in Nat /\ r.frames \in Seq(Requests)
        /\ r.ok \in BOOLEAN /\ Len(r.frames) <= Len(t.outbound)
        /\ \A j \in 1..Len(r.frames) : r.frames[j].o = t.outbound[j]
    BY <1>8 DEF Reached
  <1>10. Types'
    <2>1. toServer \o r.frames \in Seq(Requests)
      BY <1>0, <1>9 DEF Types
    <2> QED
      BY <1>0, <1>4, <1>9, <2>1 DEF Types
  <1>11. /\ Good(c, sent, sealed \cup SealedIn(t.outbound), srv, granted, toServer')
         /\ c.active = t.active /\ c.starts = t.starts /\ c.conn = t.conn /\ c.outbound = <<>>
    BY <1>3, <1>7, GoodEmptied
  <1>12. Good(co', sent', sealed', srv', granted', toServer')
    BY <1>4, <1>11
  <1>13. LedgerOK' /\ RecordsOK(srv', inbox', granted')
    BY <1>0, <1>4, <1>7, <1>11 DEF LedgerOK, GrantVerified
  <1>14. RequestsOK(toServer', co'.starts, srv', granted', inbox')
    <2>1. toServer \in Seq(Requests)
      BY <1>0 DEF Types
    <2>2. RequestsOK(toServer \o r.frames, co.starts, srv, granted, inbox)
      BY <1>0, <1>7, <1>9, <2>1, RequestsSent
    <2> QED
      BY <1>4, <1>7, <1>11, <2>2
  <1>15. FramesOK(toHost', late', co'.starts, sent', srv')
    BY <1>0, <1>4, <1>7, <1>11 DEF FramesOK
  <1>16. LayerOK'
    <2>1. r.p # None => r.p.rid <= co.starts
      <3>1. \A j \in 1..Len(t.outbound) : t.outbound[j].rid <= co.starts
        BY <1>7 DEF OutOK
      <3> QED
        BY <1>8, <3>1 DEF Reached
    <2>2. co'.conn => link' \in {"up", "lost"}
      BY <1>4
    <2>3. ASSUME link' = "up", Active(c)
          PROVE  InStep(c, r.p)
      <3>1. r.ok
        BY <1>4, <2>3
      <3>2. Active(t) /\ t = s
        BY <1>6, <1>11, <2>3 DEF Active
      <3>3. s.active.phase \in Phases /\ reqs \in Nat
        BY <1>0, <1>5, <3>2, ActiveRid DEF Types, Pairings
      <3> QED
        BY <1>2, <1>3, <1>5, <3>1, <3>2, <3>3, FlushLayer
    <2> QED
      BY <1>4, <1>7, <1>11, <2>1, <2>2, <2>3 DEF LayerOK, Layered
  <1>17. NoLostWakeup'
    BY <1>4, <1>11 DEF NoLostWakeup
  <1> QED
    BY <1>10, <1>12, <1>13, <1>14, <1>15, <1>16, <1>17 DEF PairingInv

LEMMA TaskFlushKeeps ==
    ASSUME PairingInv, TaskFlush
    PROVE  PairingInv'
  <1>0. /\ Types /\ LayerOK /\ Good(co, sent, sealed, srv, granted, toServer)
        /\ FramesOK(toHost, late, co.starts, sent, srv)
    BY DEF PairingInv
  <1>1. PICK notified \in BOOLEAN : notified = (co.status # Tick(co).status)
    OBVIOUS
  <1>2. link = "up" /\ Flush(co, sp, notified)
        /\ UNCHANGED <<late, service, granted, faults, clock>> /\ toHost' = toHost
    BY <1>1 DEF TaskFlush
  <1>3. Outcome(co, co, sent, sealed, srv, granted, toServer)
    BY <1>0 DEF Outcome
  <1>4. Active(co) => Pristine(co, sp) \/ Sendable(co, sp)
    BY <1>0, <1>2 DEF LayerOK, Layered, InStep, Sendable
  <1>5. /\ sp \in Protocols /\ toHost' \in Seq(FrameTypes) /\ (sp # None => sp.rid <= co.starts)
        /\ \A i \in 1..Len(toHost') : FrameOK(toHost'[i], co.starts, sent, srv)
    BY <1>0, <1>2 DEF Types, LayerOK, FramesOK
  <1> QED
    BY <1>2, <1>3, <1>4, <1>5, FlushKeeps

LEMMA TaskReceiveKeeps ==
    ASSUME PairingInv, TaskReceive
    PROVE  PairingInv'
  <1>0. /\ Types /\ LayerOK /\ Good(co, sent, sealed, srv, granted, toServer)
        /\ FramesOK(toHost, late, co.starts, sent, srv) /\ LedgerOK
        /\ RecordsOK(srv, inbox, granted) /\ NoLostWakeup
        /\ RequestsOK(toServer, co.starts, srv, granted, inbox)
    BY DEF PairingInv
  <1>1. /\ link = "up" /\ toHost # <<>> /\ toHost' = Tail(toHost) /\ toHost \in Seq(FrameTypes)
        /\ UNCHANGED <<late, service, granted, faults, clock>>
    BY <1>0 DEF TaskReceive, Types
  <1>2. PICK f : f = Head(toHost)
    OBVIOUS
  <1>3. /\ toHost' \in Seq(FrameTypes) /\ f = toHost[1] /\ 1 \in 1..Len(toHost)
        /\ \A i \in 1..Len(toHost') : toHost'[i] = toHost[i + 1] /\ i + 1 \in 1..Len(toHost)
    BY <1>1, <1>2
  <1>4. /\ FrameOK(f, co.starts, sent, srv)
        /\ \A i \in 1..Len(toHost') : FrameOK(toHost'[i], co.starts, sent, srv)
    BY <1>0, <1>3 DEF FramesOK
  <1>5. CASE Fits(sp, f)
    <2>1. PICK s : s = HandleEvent(co, f)
      OBVIOUS
    <2>2. PICK p : p = AfterFrame(sp, f)
      OBVIOUS
    <2>3. PICK notified \in BOOLEAN : notified = Notified(co, s)
      BY <1>0 DEF Notified, Types
    <2>4. Flush(s, p, notified)
      BY <1>2, <1>5, <2>1, <2>2, <2>3 DEF TaskReceive
    <2>5. clock \in Nat /\ sp \in Protocols /\ Layered(co, sp) /\ f \in FrameTypes
      BY <1>0, <1>1, <1>4 DEF Types, LayerOK, FrameOK
    <2>6. Outcome(co, s, sent, sealed, srv, granted, toServer)
      BY <1>0, <1>4, <2>1, <2>5, EventOutcome
    <2>7. Active(s) => Pristine(s, p) \/ Sendable(s, p)
      BY <1>0, <1>4, <1>5, <2>1, <2>2, <2>5, EventLayer
    <2>8. p \in Protocols /\ (p # None => p.rid <= co.starts)
      BY <1>0, <1>5, <2>2, <2>5, AfterFrameOK DEF LayerOK
    <2> QED
      BY <1>1, <1>3, <1>4, <2>4, <2>6, <2>7, <2>8, FlushKeeps
  <1>6. CASE ~Fits(sp, f)
    <2>1. link' = "lost" /\ UNCHANGED <<co, activity, sealed, sp, reqs, toServer>>
      BY <1>2, <1>6 DEF TaskReceive
    <2>2. UNCHANGED <<srv, inbox, sent, late, granted, clock>>
      BY <1>1 DEF service
    <2>3. Types'
      BY <1>0, <1>3, <2>1, <2>2 DEF Types
    <2>4. LayerOK' /\ NoLostWakeup'
      BY <1>0, <1>1, <2>1 DEF LayerOK, NoLostWakeup
    <2>5. LedgerOK'
      BY <1>0, <2>1, <2>2 DEF LedgerOK, GrantVerified
    <2>6. FramesOK(toHost', late', co'.starts, sent', srv')
      BY <1>0, <1>4, <2>1, <2>2 DEF FramesOK
    <2>7. /\ Good(co', sent', sealed', srv', granted', toServer')
          /\ RecordsOK(srv', inbox', granted')
          /\ RequestsOK(toServer', co'.starts, srv', granted', inbox')
      BY <1>0, <2>1, <2>2
    <2> QED
      BY <2>3, <2>4, <2>5, <2>6, <2>7 DEF PairingInv
  <1> QED
    BY <1>5, <1>6

(* The connection goes with all that was on its way.                       *)
LEMMA DisconnectKeeps ==
    ASSUME PairingInv, NEW t, Closes(co, t), t.conn = FALSE, Coordinate(t),
           NEW next \in {"down", "ended"}, Disconnected(next)
    PROVE  PairingInv'
  <1>0. /\ Types /\ RecordsOK(srv, inbox, granted) /\ LedgerOK
        /\ Good(co, sent, sealed, srv, granted, toServer)
    BY DEF PairingInv
  <1>1. /\ co' = t /\ activity' = Notified(co, t) /\ sealed' = sealed \cup SealedIn(t.outbound)
        /\ link' = next /\ sp' = None /\ reqs' = 0 /\ toServer' = <<>> /\ toHost' = <<>>
        /\ late' = {} /\ inbox' = inbox /\ sent' = sent /\ granted' = granted /\ clock' = clock
        /\ srv' = [r \in Rids |-> IF Open(r) THEN [srv[r] EXCEPT !.state = "gone"] ELSE srv[r]]
    BY DEF Coordinate, Disconnected
  <1>2. \A r \in Rids :
          /\ srv'[r] \in Entries /\ srv'[r].peer = srv[r].peer /\ srv'[r].how = srv[r].how
          /\ srv'[r].state = IF srv[r].state \in {"open", "joined"} THEN "gone" ELSE srv[r].state
    <2>1. \A r \in Rids : srv[r] \in Entries
      BY <1>0 DEF Types
    <2> QED
      BY <1>1, <2>1 DEF Open, Entries
  <1>3. Later(srv, srv')
    BY <1>2 DEF Later
  <1>4. Types'
    <2>1. srv' \in [Rids -> Entries]
      BY <1>1, <1>2
    <2>2. /\ <<>> \in Seq(Requests) /\ <<>> \in Seq(FrameTypes) /\ None \in Protocols
          /\ activity' \in BOOLEAN
      BY <1>0, <1>1 DEF Protocols, Notified, Types
    <2> QED
      BY <1>0, <1>1, <2>1, <2>2 DEF Types
  <1>5. Good(t, sent, sealed, srv, granted, toServer) /\ t.starts = co.starts /\ ~Active(t)
    BY <1>0, ClosesOutcome DEF Outcome
  <1>6. Good(t, sent, sealed, srv', granted, <<>>)
    <2>1. /\ t.outbound \in Seq(Messages)
          /\ \A j \in 1..Len(t.outbound) : TrueMessage(t.outbound[j], srv, granted)
      BY <1>5 DEF Good, OutOK
    <2>2. \A j \in 1..Len(t.outbound) : t.outbound[j].rid \in Rids
      BY <2>1, MessageParts
    <2>3. \A j \in 1..Len(t.outbound) :
            t.outbound[j].t = "create" => srv'[t.outbound[j].rid].state = "absent"
      BY <1>2, <2>1, <2>2 DEF TrueMessage
    <2>4. \A j \in 1..Len(t.outbound) : t.outbound[j].t = "create" =>
              /\ srv'[t.outbound[j].rid].state = "absent"
              /\ \A i \in 1..Len(<<>>) : <<>>[i].o.t = "create" => <<>>[i].o.rid # t.outbound[j].rid
      BY <2>3
    <2> QED
      BY <1>3, <1>5, <2>4, GoodLater
  <1>7. Good(co', sent', sealed', srv', granted', toServer')
    BY <1>1, <1>6, GoodSealed
  <1>8. LedgerOK'
    BY <1>0, <1>1, <1>2, <1>5 DEF LedgerOK, GrantVerified
  <1>9. RecordsOK(srv', inbox', granted')
    BY <1>0, <1>1, <1>2 DEF RecordsOK, Told
  <1>10. RequestsOK(toServer', co'.starts, srv', granted', inbox')
    BY <1>1 DEF RequestsOK
  <1>11. FramesOK(toHost', late', co'.starts, sent', srv')
    BY <1>1 DEF FramesOK
  <1>12. LayerOK' /\ NoLostWakeup'
    BY <1>1 DEF LayerOK, NoLostWakeup, Notified
  <1> QED
    BY <1>4, <1>7, <1>8, <1>9, <1>10, <1>11, <1>12 DEF PairingInv

LEMMA TaskEndsKeeps ==
    ASSUME PairingInv, TaskLost \/ TaskShutdown
    PROVE  PairingInv'
  <1>0. co \in Coordinators /\ ActiveOK(co)
    BY DEF PairingInv, Good
  <1>1. Closes(co, SignalingLost(co)) /\ Closes(co, Shutdown(co))
    BY <1>0, Ends
  <1>2. SignalingLost(co).conn = FALSE /\ Shutdown(co).conn = FALSE
    BY <1>0 DEF SignalingLost, Shutdown, Finish, Coordinators
  <1>3. PICK next \in {"down", "ended"} :
          /\ Coordinate(SignalingLost(co)) \/ Coordinate(Shutdown(co))
          /\ Disconnected(next)
    BY DEF TaskLost, TaskShutdown
  <1> QED
    BY <1>1, <1>2, <1>3, DisconnectKeeps

(* A connection comes up, when no pairing is active.                       *)
LEMMA TaskConnectKeeps ==
    ASSUME PairingInv, TaskConnect
    PROVE  PairingInv'
  <1>0. /\ Types /\ RecordsOK(srv, inbox, granted)
        /\ RequestsOK(toServer, co.starts, srv, granted, inbox)
        /\ FramesOK(toHost, late, co.starts, sent, srv)
        /\ LedgerOK /\ LayerOK /\ NoLostWakeup /\ Good(co, sent, sealed, srv, granted, toServer)
    BY DEF PairingInv
  <1>1. /\ link = "down" /\ link' = "up" /\ co' = [co EXCEPT !.conn = TRUE]
        /\ UNCHANGED <<activity, sp, reqs, toServer, late, toHost, srv, inbox, sent,
                       granted, sealed, clock>>
    BY DEF TaskConnect, Registration, SignalingConnected, service
  <1>2. co \in Coordinators /\ ActiveOK(co) /\ ~co.conn
    BY <1>0, <1>1 DEF Good, LayerOK
  <1>3. ~Active(co)
    BY <1>2 DEF ActiveOK
  <1>4. /\ co' \in Coordinators /\ co'.active = co.active /\ co'.starts = co.starts
        /\ co'.outbound = co.outbound
    BY <1>1, <1>2 DEF Coordinators
  <1>5. co'.active = None
    BY <1>3, <1>4 DEF Active
  <1>6. Good(co', sent, sealed, srv, granted, toServer)
    <2>1. SealsOK(co', sealed \cup SealedIn(co'.outbound))
      BY <1>0, <1>4, <1>5 DEF Good, SealsOK, Active
    <2> QED
      BY <1>0, <1>4, <1>5, <2>1 DEF Good, ActiveOK, ProvedOK, MetOK, Active
  <1>7. Types'
    BY <1>0, <1>1 DEF Types
  <1>8. LedgerOK'
    BY <1>0, <1>1, <1>4 DEF LedgerOK, GrantVerified
  <1>9. LayerOK'
    BY <1>0, <1>1, <1>4, <1>5 DEF LayerOK, Layered, Active
  <1>10. NoLostWakeup'
    BY <1>0, <1>1, <1>4 DEF NoLostWakeup
  <1>11. /\ Good(co', sent', sealed', srv', granted', toServer')
         /\ RecordsOK(srv', inbox', granted')
         /\ RequestsOK(toServer', co'.starts, srv', granted', inbox')
         /\ FramesOK(toHost', late', co'.starts, sent', srv')
    BY <1>0, <1>1, <1>4, <1>6
  <1> QED
    BY <1>7, <1>8, <1>9, <1>10, <1>11 DEF PairingInv

(* The network drops, and time passes.                                     *)
LEMMA OutsideKeeps ==
    ASSUME PairingInv, NetworkDrop \/ Advance \/ UNCHANGED vars
    PROVE  PairingInv'
  <1>0. /\ Types /\ RecordsOK(srv, inbox, granted)
        /\ RequestsOK(toServer, co.starts, srv, granted, inbox)
        /\ FramesOK(toHost, late, co.starts, sent, srv)
        /\ LedgerOK /\ LayerOK /\ NoLostWakeup /\ Good(co, sent, sealed, srv, granted, toServer)
    BY DEF PairingInv
  <1>1. /\ link' = link \/ (link = "up" /\ link' = "lost")
        /\ UNCHANGED <<co, activity, sp, reqs, toServer, late, toHost, srv, inbox, sent,
                       granted, sealed>>
        /\ clock' \in Nat
    BY <1>0 DEF NetworkDrop, Advance, service, wire, vars, Types
  <1>2. Types'
    BY <1>0, <1>1 DEF Types
  <1>3. LedgerOK' /\ LayerOK' /\ NoLostWakeup'
    BY <1>0, <1>1 DEF LedgerOK, GrantVerified, LayerOK, NoLostWakeup
  <1>4. /\ Good(co', sent', sealed', srv', granted', toServer')
        /\ RecordsOK(srv', inbox', granted')
        /\ RequestsOK(toServer', co'.starts, srv', granted', inbox')
        /\ FramesOK(toHost', late', co'.starts, sent', srv')
    BY <1>0, <1>1
  <1> QED
    BY <1>2, <1>3, <1>4 DEF PairingInv

----------------------------------------------------------------------------
(* The service and the Controllers.                                        *)

(* The frames stay true, with one more of them.                            *)
LEMMA FramesLater ==
    ASSUME NEW ahead, NEW held, NEW k, NEW said, NEW v, FramesOK(ahead, held, k, said, v),
           NEW more, Range(said) \subseteq Range(more), NEW w, Later(v, w),
           NEW X, \A m \in X : m \in held \/ FrameOK(m.f, k, more, w)
    PROVE  FramesOK(ahead, X, k, more, w)
  BY FrameLater DEF FramesOK

(* A step of the service leaves the Host alone.                            *)
LEMMA ServiceKeeps ==
    ASSUME PairingInv, UNCHANGED <<co, activity, link, sp, reqs, granted, sealed, clock>>,
           srv' \in [Rids -> Entries], Later(srv, srv'),
           \A r \in Rids : srv'[r].state # "absent" => r <= co.starts,
           inbox' \in [Controllers -> SUBSET (Rids \X Relayed)],
           sent' \in Seq(UNION {Greetings(r) : r \in Rids}), Range(sent) \subseteq Range(sent'),
           toServer' \in Seq(Requests), RequestsOK(toServer', co.starts, srv', granted, inbox'),
           RecordsOK(srv', inbox', granted),
           \A j \in 1..Len(co.outbound) : co.outbound[j].t = "create" =>
              /\ srv'[co.outbound[j].rid].state = "absent"
              /\ \A i \in 1..Len(toServer') :
                   toServer'[i].o.t = "create" => toServer'[i].o.rid # co.outbound[j].rid,
           toHost' \in Seq(FrameTypes), FramesOK(toHost', late', co.starts, sent', srv')
    PROVE  PairingInv'
  <1>0. /\ Types /\ LedgerOK /\ LayerOK /\ NoLostWakeup
        /\ Good(co, sent, sealed, srv, granted, toServer)
    BY DEF PairingInv
  <1>1. Types'
    <2>1. \A m \in late' : m.f \in FrameTypes
      BY DEF FramesOK, FrameOK
    <2> QED
      BY <1>0, <2>1 DEF Types
  <1>2. Good(co, sent', sealed, srv', granted, toServer')
    BY <1>0, GoodLater
  <1>3. LedgerOK'
    BY <1>0 DEF LedgerOK, GrantVerified
  <1>4. LayerOK' /\ NoLostWakeup'
    BY <1>0 DEF LayerOK, NoLostWakeup
  <1>5. /\ Good(co', sent', sealed', srv', granted', toServer')
        /\ RecordsOK(srv', inbox', granted')
        /\ RequestsOK(toServer', co'.starts, srv', granted', inbox')
        /\ FramesOK(toHost', late', co'.starts, sent', srv')
    BY <1>2
  <1> QED
    BY <1>1, <1>3, <1>4, <1>5 DEF PairingInv

(* The creations the Host still has to send.                               *)
LEMMA Uncreated ==
    ASSUME NEW s, NEW said, NEW S, NEW v, NEW G, NEW q, Good(s, said, S, v, G, q)
    PROVE  \A j \in 1..Len(s.outbound) : s.outbound[j].t = "create" =>
              /\ s.outbound[j].rid \in Rids /\ v[s.outbound[j].rid].state = "absent"
              /\ \A i \in 1..Len(q) : q[i].o.t = "create" => q[i].o.rid # s.outbound[j].rid
  <1>1. OutOK(s.outbound, s.starts, v, G, q) /\ s.outbound \in Seq(Messages)
    BY DEF Good, OutOK
  <1>2. \A j \in 1..Len(s.outbound) : s.outbound[j].rid \in Rids
    BY <1>1, MessageParts
  <1> QED
    BY <1>1, <1>2 DEF OutOK, TrueMessage

(* A step on one rendezvous r that keeps who joined it.                    *)
Touches(r, entry) ==
    /\ srv' = [srv EXCEPT ![r] = entry]
    /\ entry \in Entries /\ srv[r].state # "absent" /\ entry.state # "absent"
    /\ srv[r].state \in {"joined", "gone"} =>
         entry.state \in {"joined", "gone"} /\ entry.peer = srv[r].peer
    /\ srv[r].state = "gone" => entry.state = "gone"
    /\ entry.state = "joined" => entry.peer \in Controllers
    /\ entry.how = "Succeeded" => srv[r].how = "Succeeded" /\ entry.peer = srv[r].peer

(* The same for the steps that only touch a rendezvous and hold a frame.   *)
LEMMA TouchKeeps ==
    ASSUME PairingInv, NEW r \in Rids, NEW entry, Touches(r, entry),
           UNCHANGED <<co, activity, link, sp, reqs, granted, sealed, clock>>,
           UNCHANGED <<toServer, toHost, inbox, sent>>,
           NEW actor, NEW f, Hold(actor, f), FrameOK(f, co.starts, sent, srv')
    PROVE  PairingInv'
  <1>0. /\ Types /\ LedgerOK /\ RecordsOK(srv, inbox, granted)
        /\ RequestsOK(toServer, co.starts, srv, granted, inbox)
        /\ FramesOK(toHost, late, co.starts, sent, srv)
        /\ Good(co, sent, sealed, srv, granted, toServer)
    BY DEF PairingInv
  <1>1. /\ srv \in [Rids -> Entries] /\ toServer \in Seq(Requests)
        /\ toHost \in Seq(FrameTypes) /\ inbox \in [Controllers -> SUBSET (Rids \X Relayed)]
        /\ sent \in Seq(UNION {Greetings(k) : k \in Rids})
    BY <1>0 DEF Types
  <1>2. /\ srv' \in [Rids -> Entries] /\ srv'[r] = entry
        /\ \A k \in Rids : k # r => srv'[k] = srv[k]
    BY <1>1 DEF Touches
  <1>3. Later(srv, srv')
    BY <1>2 DEF Later, Touches
  <1>4. \A k \in Rids : srv'[k].state # "absent" => k <= co.starts
    BY <1>0, <1>2 DEF LedgerOK, Touches
  <1>5. \A k \in Rids : srv[k].state = "absent" => srv'[k].state = "absent"
    BY <1>2 DEF Touches
  <1>6. RequestsOK(toServer, co.starts, srv', granted, inbox)
    <2>1. \A i \in 1..Len(toServer) : toServer[i] \in Requests
      BY <1>1
    <2>2. \A i \in 1..Len(toServer) : toServer[i].o.rid \in Rids
      BY <2>1, MessageParts DEF Requests
    <2>3. \A i \in 1..Len(toServer) :
            toServer[i].o.t = "create" => srv'[toServer[i].o.rid].state = "absent"
      BY <1>0, <1>5, <2>2 DEF RequestsOK, TrueMessage
    <2> QED
      BY <1>0, <1>1, <1>3, <2>3, RequestsLater
  <1>7. RecordsOK(srv', inbox, granted)
    <2>1. \A k \in Rids : /\ srv'[k].state = "joined" => srv'[k].peer \in Controllers
                          /\ srv'[k].how = "Succeeded" => srv[k].how = "Succeeded" /\ srv'[k].peer = srv[k].peer
      BY <1>0, <1>2 DEF RecordsOK, Touches
    <2>2. \A k \in Rids : srv'[k].how = "Succeeded" => srv'[k].state = "gone" /\ Told(srv', inbox, k)
      BY <1>0, <1>3, <2>1, ToldLater DEF RecordsOK, Later
    <2> QED
      BY <1>0, <2>1, <2>2 DEF RecordsOK
  <1>8. \A j \in 1..Len(co.outbound) : co.outbound[j].t = "create" =>
              /\ srv'[co.outbound[j].rid].state = "absent"
              /\ \A i \in 1..Len(toServer) :
                   toServer[i].o.t = "create" => toServer[i].o.rid # co.outbound[j].rid
    BY <1>0, <1>5, Uncreated
  <1>9. FramesOK(toHost, late', co.starts, sent, srv')
    <2>1. \A m \in late' : m \in late \/ FrameOK(m.f, co.starts, sent, srv')
      BY DEF Hold
    <2> QED
      BY <1>0, <1>3, <2>1, FramesLater
  <1> QED
    BY <1>1, <1>2, <1>3, <1>4, <1>6, <1>7, <1>8, <1>9, ServiceKeeps

(* Frames the service sends.                                               *)
LEMMA FrameKinds ==
    ASSUME NEW r \in Rids, NEW k, r <= k, NEW said, NEW v
    PROVE  /\ \A q \in Nat, how \in {"Rejected", "Succeeded", "Expired", "Disconnected"} :
                FrameOK(Closed(q, r, how), k, said, v)
           /\ \A q \in Nat, kind \in Kinds, exp \in Int :
                FrameOK([t |-> "created", req |-> q, rid |-> r, kind |-> kind, exp |-> exp],
                        k, said, v)
           /\ \A c \in Controllers, exp \in Int : Met(v, r, c) =>
                FrameOK([t |-> "joined", rid |-> r, peer |-> c, exp |-> exp], k, said, v)
           /\ \A c \in Controllers, e \in Greetings(r) : e \in Range(said) =>
                FrameOK([t |-> "routed", rid |-> r, sender |-> c, envelope |-> e], k, said, v)
  <1>1. \A q \in Nat, how \in {"Rejected", "Succeeded", "Expired", "Disconnected"} :
           FrameOK(Closed(q, r, how), k, said, v)
    BY DEF FrameOK, Closed, FrameTypes
  <1>2. \A q \in Nat, kind \in Kinds, exp \in Int :
           FrameOK([t |-> "created", req |-> q, rid |-> r, kind |-> kind, exp |-> exp],
                   k, said, v)
    BY DEF FrameOK, FrameTypes
  <1>3. \A c \in Controllers, exp \in Int : Met(v, r, c) =>
           FrameOK([t |-> "joined", rid |-> r, peer |-> c, exp |-> exp], k, said, v)
    BY DEF FrameOK, FrameTypes
  <1>4. ASSUME NEW c \in Controllers, NEW e \in Greetings(r), e \in Range(said)
        PROVE  FrameOK([t |-> "routed", rid |-> r, sender |-> c, envelope |-> e], k, said, v)
    <2> DEFINE f == [t |-> "routed", rid |-> r, sender |-> c, envelope |-> e]
    <2>1. f \in [t : {"routed"}, rid : {r}, sender : Controllers, envelope : Greetings(r)]
      OBVIOUS
    <2>2. f \in RoutedFrames
      BY <2>1 DEF RoutedFrames
    <2>3. f \in FrameTypes
      BY <2>2 DEF FrameTypes
    <2> QED
      BY <1>4, <2>3 DEF FrameOK
  <1> QED
    BY <1>1, <1>2, <1>3, <1>4

LEMMA ErrorFrame ==
    ASSUME NEW q \in Int, NEW k, NEW said, NEW v
    PROVE  FrameOK(Error(q), k, said, v)
  BY DEF FrameOK, Error, FrameTypes

(* A Controller joins, leaves, or is too late.                             *)
LEMMA TouchesKeep ==
    ASSUME PairingInv, NEW c, NEW r \in Rids,
           (c \in Controllers /\ ServeJoin(c, r)) \/ ServePeerGone(c, r) \/ ServeExpiry(r)
    PROVE  PairingInv'
  <1>0. /\ srv[r] \in Entries /\ RecordsOK(srv, inbox, granted) /\ LedgerOK /\ srv \in [Rids -> Entries]
    BY DEF PairingInv, Types
  <1>1. /\ UNCHANGED <<co, activity, link, sp, reqs, granted, sealed, clock>>
        /\ UNCHANGED <<toServer, toHost, inbox, sent>>
    BY DEF ServeJoin, ServePeerGone, ServeExpiry, hostSide
  <1>2. srv[r].state \in {"open", "joined"}
    BY DEF ServeJoin, ServePeerGone, ServeExpiry, Open
  <1>3. r <= co.starts /\ srv[r].how # "Succeeded"
    BY <1>0, <1>2 DEF LedgerOK, RecordsOK
  <1>4. CASE c \in Controllers /\ ServeJoin(c, r)
    <2> DEFINE entry == [srv[r] EXCEPT !.state = "joined", !.peer = c]
               f == [t |-> "joined", rid |-> r, peer |-> c, exp |-> srv[r].exp]
    <2>1. srv' = [srv EXCEPT ![r] = entry] /\ Hold(c, f) /\ srv[r].state = "open"
      BY <1>0, <1>4 DEF ServeJoin
    <2>2. /\ entry \in Entries /\ entry.state = "joined" /\ entry.peer = c
          /\ entry.how = srv[r].how /\ srv[r].exp \in Int
      BY <1>0, <1>4 DEF Entries, Peers
    <2> HIDE DEF entry
    <2>3. Touches(r, entry)
      BY <1>3, <1>4, <2>1, <2>2 DEF Touches
    <2>4. Met(srv', r, c)
      BY <1>0, <2>1, <2>2 DEF Met
    <2>5. FrameOK(f, co.starts, sent, srv')
      BY <1>3, <1>4, <2>2, <2>4, FrameKinds
    <2> QED
      BY <1>1, <2>1, <2>3, <2>5, TouchKeeps
  <1>5. CASE ServePeerGone(c, r) \/ ServeExpiry(r)
    <2> DEFINE entry == [srv[r] EXCEPT !.state = "gone"]
    <2>1. PICK f : /\ srv' = [srv EXCEPT ![r] = entry]
                   /\ Hold(c, f) \/ Hold("sweeper", f)
                   /\ f \in {Closed(0, r, "Expired"), Closed(0, r, "Disconnected")}
      BY <1>0, <1>5 DEF ServePeerGone, ServeExpiry
    <2>2. /\ entry \in Entries /\ entry.state = "gone" /\ entry.peer = srv[r].peer
          /\ entry.how = srv[r].how
      BY <1>0 DEF Entries
    <2> HIDE DEF entry
    <2>3. Touches(r, entry)
      BY <1>2, <1>3, <2>1, <2>2 DEF Touches
    <2>4. FrameOK(f, co.starts, sent, srv')
      BY <1>3, <2>1, FrameKinds
    <2> QED
      BY <1>1, <2>1, <2>3, <2>4, TouchKeeps
  <1> QED
    BY <1>4, <1>5

(* The steps that leave every rendezvous as it is.                         *)
LEMMA StillKeeps ==
    ASSUME PairingInv, UNCHANGED <<co, activity, link, sp, reqs, granted, sealed, clock>>,
           UNCHANGED <<toServer, srv, inbox>>,
           sent' \in Seq(UNION {Greetings(r) : r \in Rids}), Range(sent) \subseteq Range(sent'),
           toHost' \in Seq(FrameTypes), FramesOK(toHost', late', co.starts, sent', srv)
    PROVE  PairingInv'
  <1>0. /\ Types /\ LedgerOK /\ RecordsOK(srv, inbox, granted)
        /\ RequestsOK(toServer, co.starts, srv, granted, inbox)
        /\ Good(co, sent, sealed, srv, granted, toServer)
    BY DEF PairingInv
  <1>1. /\ srv' \in [Rids -> Entries] /\ toServer' \in Seq(Requests)
        /\ inbox' \in [Controllers -> SUBSET (Rids \X Relayed)]
    BY <1>0 DEF Types
  <1>2. \A r \in Rids : srv'[r].state # "absent" => r <= co.starts
    BY <1>0 DEF LedgerOK
  <1>3. \A j \in 1..Len(co.outbound) : co.outbound[j].t = "create" =>
              /\ srv'[co.outbound[j].rid].state = "absent"
              /\ \A i \in 1..Len(toServer') :
                   toServer'[i].o.t = "create" => toServer'[i].o.rid # co.outbound[j].rid
    BY <1>0, Uncreated
  <1>4. Later(srv, srv')
    BY Unmoved
  <1> QED
    BY <1>0, <1>1, <1>2, <1>3, <1>4, ServiceKeeps

(* What a longer sequence holds.                                           *)
LEMMA RangeAppend ==
    ASSUME NEW T, NEW s \in Seq(T), NEW e \in T
    PROVE  Range(s) \subseteq Range(Append(s, e)) /\ e \in Range(Append(s, e))
  <1> DEFINE z == Append(s, e)
             n == Len(s)
  <1>1. /\ DOMAIN s = 1..n /\ DOMAIN z = 1..n + 1 /\ n \in Nat
        /\ \A i \in 1..n : z[i] = s[i]
        /\ z[n + 1] = e
    OBVIOUS
  <1>2. n + 1 \in 1..n + 1 /\ \A i \in 1..n : i \in 1..n + 1
    BY <1>1
  <1> HIDE DEF z, n
  <1>3. Range(s) \subseteq Range(z) /\ e \in Range(z)
    BY <1>1, <1>2 DEF Range
  <1> QED
    BY <1>3 DEF z

LEMMA RelayKeeps ==
    ASSUME PairingInv, NEW c \in Controllers, NEW r \in Rids,
           NEW e \in ControllerEnvelopes(c, r), ServeRelay(c, r, e)
    PROVE  PairingInv'
  <1>0. /\ Types /\ LedgerOK /\ FramesOK(toHost, late, co.starts, sent, srv)
    BY DEF PairingInv
  <1>1. /\ UNCHANGED <<co, activity, link, sp, reqs, granted, sealed, clock>>
        /\ UNCHANGED <<toServer, toHost, srv, inbox>> /\ sent' = Append(sent, e)
        /\ Hold(c, [t |-> "routed", rid |-> r, sender |-> c, envelope |-> e])
        /\ srv[r].state = "joined"
    BY DEF ServeRelay, hostSide
  <1>2. e \in Greetings(r)
    BY DEF ControllerEnvelopes, Greetings
  <1>3. PICK T : T = UNION {Greetings(k) : k \in Rids}
    OBVIOUS
  <1>4. e \in T /\ sent \in Seq(T)
    BY <1>0, <1>2, <1>3 DEF Types
  <1>5. sent' \in Seq(T)
    BY <1>1, <1>4
  <1>6. Range(sent) \subseteq Range(sent') /\ e \in Range(sent')
    BY <1>1, <1>4, RangeAppend
  <1>7. r <= co.starts
    BY <1>0, <1>1 DEF LedgerOK
  <1>8. FrameOK([t |-> "routed", rid |-> r, sender |-> c, envelope |-> e], co.starts, sent', srv)
    BY <1>2, <1>6, <1>7, FrameKinds
  <1>9. \A m \in late' : m \in late \/ FrameOK(m.f, co.starts, sent', srv)
    BY <1>1, <1>8 DEF Hold
  <1>10. FramesOK(toHost', late', co.starts, sent', srv)
    BY <1>0, <1>1, <1>6, <1>9, Unmoved, FramesLater
  <1>11. toHost' \in Seq(FrameTypes)
    BY <1>0, <1>1 DEF Types
  <1> QED
    BY <1>1, <1>3, <1>5, <1>6, <1>10, <1>11, StillKeeps

LEMMA QueueKeeps ==
    ASSUME PairingInv, StrayError \/ \E m \in late : Queue(m)
    PROVE  PairingInv'
  <1>0. /\ Types /\ FramesOK(toHost, late, co.starts, sent, srv)
    BY DEF PairingInv
  <1>1. sent \in Seq(UNION {Greetings(r) : r \in Rids}) /\ toHost \in Seq(FrameTypes)
    BY <1>0 DEF Types
  <1>2. CASE StrayError
    <2>1. /\ UNCHANGED <<co, activity, link, sp, reqs, granted, sealed, clock>>
          /\ UNCHANGED <<toServer, toHost, srv, inbox, sent>> /\ Hold(Host, Error(-1))
      BY <1>2 DEF StrayError, service
    <2>2. FrameOK(Error(-1), co.starts, sent, srv)
      BY ErrorFrame
    <2>3. FramesOK(toHost', late', co.starts, sent', srv)
      BY <1>0, <2>1, <2>2 DEF Hold, FramesOK
    <2> QED
      BY <1>1, <2>1, <2>3, StillKeeps
  <1>3. CASE \E m \in late : Queue(m)
    <2>1. PICK m \in late : Queue(m)
      BY <1>3
    <2>2. /\ UNCHANGED <<co, activity, link, sp, reqs, granted, sealed, clock>>
          /\ UNCHANGED <<toServer, srv, inbox, sent>>
          /\ late' = late \ {m} /\ toHost' = Append(toHost, m.f)
      BY <2>1 DEF Queue, hostSide, service
    <2>3. FrameOK(m.f, co.starts, sent, srv) /\ m.f \in FrameTypes
      BY <1>0 DEF FramesOK, FrameOK
    <2>4. toHost' \in Seq(FrameTypes) /\ \A i \in 1..Len(toHost') :
            (i \in 1..Len(toHost) /\ toHost'[i] = toHost[i]) \/ toHost'[i] = m.f
      BY <1>1, <2>2, <2>3
    <2>5. FramesOK(toHost', late', co.starts, sent', srv)
      BY <1>0, <2>2, <2>3, <2>4 DEF FramesOK
    <2> QED
      BY <1>1, <2>2, <2>4, <2>5, StillKeeps
  <1> QED
    BY <1>2, <1>3

(* The first request is served: what is behind it stays true and in order. *)
LEMMA RequestsServed ==
    ASSUME NEW q \in Seq(Requests), q # <<>>, NEW k, NEW v, NEW G, NEW box,
           RequestsOK(q, k, v, G, box),
           NEW w, Later(v, w), NEW more, \A c \in Controllers : box[c] \subseteq more[c],
           \A i \in 2..Len(q) : q[i].o.t = "create" => w[q[i].o.rid].state = "absent",
           IsDecision(q[1].o) => w[q[1].o.rid].state = "gone" \/ Told(w, more, q[1].o.rid)
    PROVE  RequestsOK(Tail(q), k, w, G, more)
  <1>0. PICK n \in Nat : n = Len(q) /\ n >= 1
    OBVIOUS
  <1> DEFINE z == Tail(q)
  <1>1. Len(z) = n - 1 /\ \A i \in 1..n - 1 : z[i] = q[i + 1]
    BY <1>0
  <1>2. \A i \in 1..n - 1 : i + 1 \in 2..n /\ i + 1 \in 1..n
    BY <1>0
  <1>3. \A i \in 1..n : q[i].o \in Messages /\ q[i].o.rid \in Rids
    <2>1. \A i \in 1..n : q[i] \in Requests
      BY <1>0
    <2>2. \A i \in 1..n : q[i].o \in Messages
      BY <2>1 DEF Requests
    <2> QED
      BY <2>2, MessageParts
  <1> HIDE DEF z
  <1>4. ASSUME NEW i \in 1..n - 1
        PROVE  z[i].o.rid <= k /\ TrueMessage(z[i].o, w, G)
    <2>1. PICK j \in 2..n : j = i + 1 /\ j \in 1..n /\ z[i] = q[j]
      BY <1>1, <1>2
    <2>2. q[j].o.rid <= k /\ TrueMessage(q[j].o, v, G)
      BY <1>0, <2>1 DEF RequestsOK
    <2>3. q[j].o \in Messages /\ (q[j].o.t = "create" => w[q[j].o.rid].state = "absent")
      BY <1>0, <1>3, <2>1
    <2>4. TrueMessage(q[j].o, w, G)
      BY <2>2, <2>3, TrueLater
    <2> QED
      BY <2>1, <2>2, <2>4
  <1>5. ASSUME NEW i \in 1..n - 1, NEW j \in 1..n - 1, z[i].o.t = "create", z[j].o.t = "create",
               z[i].o.rid = z[j].o.rid
        PROVE  i = j
    <2>1. i + 1 = j + 1
      BY <1>0, <1>1, <1>2, <1>5 DEF RequestsOK
    <2> QED
      BY <2>1
  <1>6. ASSUME NEW j \in 1..n - 1, Succeeds(z[j].o)
        PROVE  w[z[j].o.rid].state = "gone" \/ Told(w, more, z[j].o.rid) \/ Behind(z, j)
    <2>1. PICK l \in 1..n : l = j + 1 /\ z[j] = q[l]
      BY <1>1, <1>2
    <2>2. PICK r \in Rids : r = q[l].o.rid /\ r = z[j].o.rid
      BY <1>3, <2>1
    <2>3. v[r].state \in {"joined", "gone"}
      BY <1>0, <1>6, <2>1, <2>2 DEF RequestsOK, TrueMessage, Succeeds
    <2>4. w[r].peer = v[r].peer /\ (v[r].state = "gone" => w[r].state = "gone")
      BY <2>3 DEF Later
    <2>5. v[r].state = "gone" \/ Told(v, box, r) \/ Behind(q, l)
      BY <1>0, <1>6, <2>1, <2>2 DEF RequestsOK
    <2>6. CASE Behind(q, l)
      <3>1. PICK i \in 1..l - 1 : IsDecision(q[i].o) /\ q[i].o.rid = q[l].o.rid
        BY <2>6 DEF Behind
      <3>2. CASE i = 1
        BY <2>2, <3>1, <3>2
      <3>3. CASE i # 1
        <4>1. PICK h \in 1..j - 1 : h = i - 1 /\ h \in 1..n - 1
          BY <1>0, <2>1, <3>3
        <4>2. z[h] = q[i]
          BY <1>1, <4>1
        <4>3. Behind(z, j)
          BY <2>1, <3>1, <4>1, <4>2 DEF Behind
        <4> QED
          BY <4>3
      <3> QED
        BY <3>2, <3>3
    <2> QED
      BY <2>2, <2>4, <2>5, <2>6, ToldLater
  <1>7. RequestsOK(z, k, w, G, more)
    BY <1>1, <1>4, <1>5, <1>6 DEF RequestsOK
  <1> QED
    BY <1>7 DEF z

(* What the Host's handler may change with the first request.              *)
LEMMA HeadKeeps ==
    ASSUME PairingInv, toServer # <<>>, toServer' = Tail(toServer),
           UNCHANGED <<co, activity, link, sp, reqs, granted, sealed, clock>>,
           UNCHANGED <<toHost, sent>>,
           srv' \in [Rids -> Entries], Later(srv, srv'),
           \A k \in Rids : srv[k].state = "absent" =>
              srv'[k].state = "absent" \/ (toServer[1].o.t = "create" /\ k = toServer[1].o.rid),
           inbox' \in [Controllers -> SUBSET (Rids \X Relayed)],
           \A c \in Controllers : inbox[c] \subseteq inbox'[c],
           IsDecision(toServer[1].o) =>
              srv'[toServer[1].o.rid].state = "gone" \/ Told(srv', inbox', toServer[1].o.rid),
           RecordsOK(srv', inbox', granted),
           \A m \in late' : m \in late \/ FrameOK(m.f, co.starts, sent, srv')
    PROVE  PairingInv'
  <1>0. /\ Types /\ LedgerOK /\ RequestsOK(toServer, co.starts, srv, granted, inbox)
        /\ FramesOK(toHost, late, co.starts, sent, srv)
        /\ Good(co, sent, sealed, srv, granted, toServer)
    BY DEF PairingInv
  <1>1. /\ toServer \in Seq(Requests) /\ toHost \in Seq(FrameTypes)
        /\ sent \in Seq(UNION {Greetings(k) : k \in Rids})
    BY <1>0 DEF Types
  <1>2. PICK n \in Nat : n = Len(toServer) /\ n >= 1
    BY <1>1
  <1>3. /\ toServer' \in Seq(Requests) /\ Len(toServer') = n - 1
        /\ \A i \in 1..n - 1 : toServer'[i] = toServer[i + 1] /\ i + 1 \in 2..n /\ i + 1 \in 1..n
    BY <1>1, <1>2
  <1>4. \A i \in 1..n : toServer[i].o.rid \in Rids
    <2>1. \A i \in 1..n : toServer[i] \in Requests
      BY <1>1, <1>2
    <2> QED
      BY <2>1, MessageParts DEF Requests
  <1>5. 1 \in 1..n /\ \A i \in 2..n : i \in 1..n /\ i # 1
    BY <1>2
  <1>6. \A i \in 2..n : toServer[i].o.t = "create" => srv'[toServer[i].o.rid].state = "absent"
    BY <1>0, <1>2, <1>4, <1>5 DEF RequestsOK, TrueMessage
  <1>7. RequestsOK(Tail(toServer), co.starts, srv', granted, inbox')
    BY <1>0, <1>1, <1>2, <1>6, RequestsServed
  <1>8. \A k \in Rids : srv'[k].state # "absent" => k <= co.starts
    BY <1>0, <1>2, <1>5 DEF LedgerOK, RequestsOK
  <1>9. \A j \in 1..Len(co.outbound) : co.outbound[j].t = "create" =>
              /\ srv'[co.outbound[j].rid].state = "absent"
              /\ \A i \in 1..Len(toServer') :
                   toServer'[i].o.t = "create" => toServer'[i].o.rid # co.outbound[j].rid
    BY <1>0, <1>2, <1>3, <1>5, Uncreated
  <1>10. FramesOK(toHost, late', co.starts, sent, srv')
    BY <1>0, FramesLater
  <1>11. RequestsOK(toServer', co.starts, srv', granted, inbox')
    BY <1>7
  <1>12. FramesOK(toHost', late', co.starts, sent', srv')
    BY <1>10
  <1> QED
    BY <1>1, <1>3, <1>8, <1>9, <1>11, <1>12, ServiceKeeps

(* What the first request is.                                              *)
LEMMA HeadParts ==
    ASSUME PairingInv, toServer # <<>>
    PROVE  /\ Head(toServer) = toServer[1] /\ toServer[1].o \in Messages
           /\ toServer[1].req \in Nat /\ toServer[1].o.rid \in Rids
           /\ toServer[1].o.rid <= co.starts /\ TrueMessage(toServer[1].o, srv, granted)
           /\ Succeeds(toServer[1].o) =>
                \/ srv[toServer[1].o.rid].state = "gone"
                \/ Told(srv, inbox, toServer[1].o.rid)
  <1>0. Types /\ RequestsOK(toServer, co.starts, srv, granted, inbox)
    BY DEF PairingInv
  <1>1. toServer \in Seq(Requests)
    BY <1>0 DEF Types
  <1>2. Head(toServer) = toServer[1] /\ toServer[1] \in Requests /\ 1 \in 1..Len(toServer)
    BY <1>1
  <1>3. toServer[1].o \in Messages /\ toServer[1].req \in Nat
    BY <1>2 DEF Requests
  <1>4. ~Behind(toServer, 1)
    BY DEF Behind
  <1> QED
    BY <1>0, <1>2, <1>3, <1>4, MessageParts DEF RequestsOK

(* A creation is served.                                                   *)
LEMMA CreateServed ==
    ASSUME PairingInv, toServer # <<>>, toServer[1].o.t = "create",
           toServer' = Tail(toServer),
           UNCHANGED <<co, activity, link, sp, reqs, granted, sealed, clock>>,
           UNCHANGED <<toHost, sent, inbox>>,
           NEW exp \in Int,
           srv' = [srv EXCEPT ![toServer[1].o.rid] =
                     [state |-> "open", exp |-> exp, peer |-> Host, how |-> "none"]],
           Hold(Host, [t |-> "created", req |-> toServer[1].req, rid |-> toServer[1].o.rid,
                       kind |-> toServer[1].o.kind, exp |-> exp])
    PROVE  PairingInv'
  <1>0. Types /\ RecordsOK(srv, inbox, granted)
    BY DEF PairingInv
  <1>1. PICK m : m = toServer[1].o
    OBVIOUS
  <1>2. PICK r \in Rids : r = m.rid
    BY <1>1, HeadParts
  <1>3. /\ m \in Messages /\ m.t = "create" /\ m.kind \in Kinds /\ r <= co.starts
        /\ srv[r].state = "absent" /\ toServer[1].req \in Nat
    BY <1>1, <1>2, HeadParts, MessageParts DEF TrueMessage
  <1>4. PICK entry : entry = [state |-> "open", exp |-> exp, peer |-> Host, how |-> "none"]
    OBVIOUS
  <1>5. entry \in Entries /\ entry.state = "open" /\ entry.how = "none"
    BY <1>4 DEF Entries, Peers
  <1>6. /\ srv \in [Rids -> Entries]
        /\ inbox \in [Controllers -> SUBSET (Rids \X Relayed)]
    BY <1>0 DEF Types
  <1>7. /\ srv' \in [Rids -> Entries] /\ srv'[r] = entry
        /\ \A k \in Rids : k # r => srv'[k] = srv[k]
    BY <1>1, <1>2, <1>4, <1>5, <1>6
  <1>8. Later(srv, srv')
    BY <1>3, <1>5, <1>7 DEF Later
  <1>9. RecordsOK(srv', inbox, granted)
    <2>1. \A k \in Rids : srv'[k].how = "Succeeded" => srv'[k].state = "gone" /\ Told(srv', inbox, k)
      BY <1>0, <1>5, <1>7 DEF RecordsOK, Told
    <2> QED
      BY <1>0, <1>5, <1>7, <2>1 DEF RecordsOK
  <1>10. FrameOK([t |-> "created", req |-> toServer[1].req, rid |-> r, kind |-> m.kind,
                  exp |-> exp], co.starts, sent, srv')
    BY <1>3, FrameKinds
  <1>11. \A x \in late' : x \in late \/ FrameOK(x.f, co.starts, sent, srv')
    BY <1>1, <1>2, <1>10 DEF Hold
  <1>12. ~IsDecision(toServer[1].o)
    BY DEF IsDecision, SealedRelay
  <1>13. \A k \in Rids : srv[k].state = "absent" =>
            srv'[k].state = "absent" \/ (toServer[1].o.t = "create" /\ k = toServer[1].o.rid)
    BY <1>1, <1>2, <1>7
  <1> QED
    BY <1>6, <1>7, <1>8, <1>9, <1>11, <1>12, <1>13, HeadKeeps

(* A request is refused, or was one of a rendezvous that has ended.        *)
LEMMA RefusalServed ==
    ASSUME PairingInv, toServer # <<>>, toServer' = Tail(toServer),
           UNCHANGED <<co, activity, link, sp, reqs, granted, sealed, clock>>,
           UNCHANGED <<toHost, sent, inbox, srv>>, Hold(Host, Error(toServer[1].req)),
           toServer[1].o.t = "relay" => srv[toServer[1].o.rid].state # "joined"
    PROVE  PairingInv'
  <1>0. Types /\ RecordsOK(srv, inbox, granted)
    BY DEF PairingInv
  <1>1. /\ srv \in [Rids -> Entries]
        /\ inbox \in [Controllers -> SUBSET (Rids \X Relayed)]
    BY <1>0 DEF Types
  <1>2. IsDecision(toServer[1].o) => srv[toServer[1].o.rid].state = "gone"
    BY HeadParts DEF IsDecision, SealedRelay, TrueMessage, Met
  <1>3. FrameOK(Error(toServer[1].req), co.starts, sent, srv)
    BY HeadParts, ErrorFrame
  <1>4. \A x \in late' : x \in late \/ FrameOK(x.f, co.starts, sent, srv')
    BY <1>3 DEF Hold
  <1>5. RecordsOK(srv', inbox', granted) /\ Later(srv, srv')
    BY <1>0, Unmoved
  <1>6. \A k \in Rids : srv[k].state = "absent" =>
            srv'[k].state = "absent" \/ (toServer[1].o.t = "create" /\ k = toServer[1].o.rid)
    OBVIOUS
  <1>7. IsDecision(toServer[1].o) =>
          srv'[toServer[1].o.rid].state = "gone" \/ Told(srv', inbox', toServer[1].o.rid)
    BY <1>2
  <1> QED
    BY <1>1, <1>4, <1>5, <1>6, <1>7, HeadKeeps

(* An envelope reaches the Controller that joined.                         *)
LEMMA RelayServed ==
    ASSUME PairingInv, toServer # <<>>, toServer' = Tail(toServer), toServer[1].o.t = "relay",
           UNCHANGED <<co, activity, link, sp, reqs, granted, sealed, clock>>,
           UNCHANGED <<toHost, sent, srv, late>>, srv[toServer[1].o.rid].state = "joined",
           inbox' = [inbox EXCEPT ![srv[toServer[1].o.rid].peer] =
                       @ \cup {<<toServer[1].o.rid, toServer[1].o.envelope>>}]
    PROVE  PairingInv'
  <1>0. Types /\ RecordsOK(srv, inbox, granted)
    BY DEF PairingInv
  <1>1. /\ srv \in [Rids -> Entries]
        /\ inbox \in [Controllers -> SUBSET (Rids \X Relayed)]
    BY <1>0 DEF Types
  <1>2. PICK m : m = toServer[1].o
    OBVIOUS
  <1>3. PICK r \in Rids : r = m.rid
    BY <1>2, HeadParts
  <1>4. PICK e : e = m.envelope
    OBVIOUS
  <1>5. e \in Seals(r) \cup {Invitation} /\ TrueMessage(m, srv, granted) /\ m.t = "relay"
    BY <1>2, <1>3, <1>4, HeadParts, MessageParts
  <1>6. e \in Relayed
    BY <1>5 DEF Relayed
  <1>7. PICK c \in Controllers : c = srv[r].peer
    BY <1>0, <1>2, <1>3 DEF RecordsOK
  <1>8. /\ inbox' \in [Controllers -> SUBSET (Rids \X Relayed)]
        /\ inbox'[c] = inbox[c] \cup {<<r, e>>}
        /\ \A d \in Controllers : d # c => inbox'[d] = inbox[d]
    <2>1. inbox' = [inbox EXCEPT ![c] = @ \cup {<<r, e>>}]
      BY <1>2, <1>3, <1>4, <1>7
    <2>2. PICK B : B = Rids \X Relayed
      OBVIOUS
    <2>3. <<r, e>> \in B /\ inbox \in [Controllers -> SUBSET B]
      BY <1>1, <1>6, <2>2
    <2>4. inbox[c] \cup {<<r, e>>} \in SUBSET B
      BY <2>3
    <2>5. inbox' \in [Controllers -> SUBSET B]
      BY <2>1, <2>3, <2>4
    <2> QED
      BY <2>1, <2>2, <2>3, <2>5
  <1>9. \A d \in Controllers : inbox[d] \subseteq inbox'[d]
    BY <1>8
  <1>10. (e.t = "sealed" /\ e.body.t = "decision" /\ e.body.status = "Accepted")
            => <<c, r>> \in granted
    BY <1>3, <1>4, <1>5, <1>7 DEF TrueMessage, IsDecision, SealedRelay, Met
  <1>11. RecordsOK(srv, inbox', granted)
    <2>1. ASSUME NEW d \in Controllers, NEW x \in inbox'[d],
                 x[2].t = "sealed", x[2].body.t = "decision", x[2].body.status = "Accepted"
          PROVE  <<d, x[1]>> \in granted
      <3>1. CASE x \in inbox[d]
        BY <1>0, <2>1, <3>1 DEF RecordsOK
      <3>2. CASE ~(x \in inbox[d])
        <4>1. d = c /\ x = <<r, e>>
          BY <1>8, <2>1, <3>2
        <4>2. x[1] = r /\ x[2] = e
          BY <4>1
        <4> QED
          BY <1>10, <2>1, <4>1, <4>2
      <3> QED
        BY <3>1, <3>2
    <2>2. ASSUME NEW k \in Rids, srv[k].how = "Succeeded"
          PROVE  srv[k].state = "gone" /\ Told(srv, inbox', k)
      <3>1. srv[k].state = "gone" /\ Told(srv, inbox, k)
        BY <1>0, <2>2 DEF RecordsOK
      <3> QED
        BY <1>9, <3>1 DEF Told
    <2> QED
      BY <1>0, <2>1, <2>2 DEF RecordsOK
  <1>12. IsDecision(m) => Told(srv, inbox', r)
    <2>1. <<r, e>> \in inbox'[c] /\ <<r, e>>[1] = r /\ <<r, e>>[2] = e
      BY <1>8
    <2> QED
      BY <1>4, <1>7, <2>1 DEF IsDecision, SealedRelay, Told
  <1>13. Later(srv, srv') /\ srv' = srv /\ RecordsOK(srv', inbox', granted)
    BY <1>11, Unmoved
  <1>14. IsDecision(toServer[1].o) =>
           srv'[toServer[1].o.rid].state = "gone" \/ Told(srv', inbox', toServer[1].o.rid)
    BY <1>2, <1>3, <1>12
  <1>15. \A x \in late' : x \in late \/ FrameOK(x.f, co.starts, sent, srv')
    OBVIOUS
  <1>16. \A k \in Rids : srv[k].state = "absent" =>
            srv'[k].state = "absent" \/ (toServer[1].o.t = "create" /\ k = toServer[1].o.rid)
    BY <1>13
  <1> QED
    BY <1>1, <1>8, <1>9, <1>13, <1>14, <1>15, <1>16, HeadKeeps

(* The Host's completion is recorded.                                      *)
LEMMA CompleteServed ==
    ASSUME PairingInv, toServer # <<>>, toServer' = Tail(toServer),
           toServer[1].o.t = "complete", Open(toServer[1].o.rid),
           UNCHANGED <<co, activity, link, sp, reqs, granted, sealed, clock>>,
           UNCHANGED <<toHost, sent, inbox>>,
           srv' = [srv EXCEPT ![toServer[1].o.rid].state = "gone",
                              ![toServer[1].o.rid].how = toServer[1].o.how],
           Hold(Host, Closed(toServer[1].req, toServer[1].o.rid, toServer[1].o.how))
    PROVE  PairingInv'
  <1>0. Types /\ RecordsOK(srv, inbox, granted)
    BY DEF PairingInv
  <1>1. /\ srv \in [Rids -> Entries]
        /\ inbox \in [Controllers -> SUBSET (Rids \X Relayed)]
    BY <1>0 DEF Types
  <1>2. PICK m : m = toServer[1].o
    OBVIOUS
  <1>3. PICK r \in Rids : r = m.rid
    BY <1>2, HeadParts
  <1>4. PICK how \in {"Rejected", "Succeeded"} : how = m.how
    BY <1>2, HeadParts, MessageParts
  <1>5. /\ m.t = "complete" /\ r <= co.starts /\ toServer[1].req \in Nat
        /\ srv[r].state \in {"open", "joined"}
        /\ Succeeds(m) => srv[r].state = "gone" \/ Told(srv, inbox, r)
    BY <1>2, <1>3, HeadParts DEF Open
  <1>6. PICK entry : entry = [srv[r] EXCEPT !.state = "gone", !.how = how]
    OBVIOUS
  <1>7. /\ entry \in Entries /\ entry.state = "gone" /\ entry.peer = srv[r].peer
        /\ entry.how = how
    BY <1>1, <1>6 DEF Entries
  <1>8. /\ srv' \in [Rids -> Entries] /\ srv'[r] = entry
        /\ \A k \in Rids : k # r => srv'[k] = srv[k]
    <2>1. srv' = [srv EXCEPT ![r] = entry]
      BY <1>1, <1>2, <1>3, <1>4, <1>6
    <2> QED
      BY <1>1, <1>7, <2>1
  <1>9. Later(srv, srv')
    BY <1>5, <1>7, <1>8 DEF Later
  <1>10. RecordsOK(srv', inbox, granted)
    <2>1. ASSUME NEW k \in Rids, srv'[k].how = "Succeeded"
          PROVE  srv'[k].state = "gone" /\ Told(srv', inbox, k)
      <3>1. CASE k = r
        <4>1. Succeeds(m)
          BY <1>4, <1>5, <1>7, <1>8, <2>1, <3>1 DEF Succeeds
        <4>2. Told(srv, inbox, r)
          BY <1>5, <4>1
        <4>3. Told(srv', inbox, r)
          BY <1>7, <1>8, <4>2 DEF Told
        <4> QED
          BY <1>7, <1>8, <3>1, <4>3
      <3>2. CASE k # r
        <4>1. srv'[k] = srv[k] /\ srv[k].how = "Succeeded"
          BY <1>8, <2>1, <3>2
        <4>2. srv[k].state = "gone" /\ Told(srv, inbox, k)
          BY <1>0, <4>1 DEF RecordsOK
        <4>3. Told(srv', inbox, k)
          BY <4>1, <4>2 DEF Told
        <4> QED
          BY <4>1, <4>2, <4>3
      <3> QED
        BY <3>1, <3>2
    <2>2. \A k \in Rids : srv'[k].state = "joined" => srv'[k].peer \in Controllers
      BY <1>0, <1>7, <1>8 DEF RecordsOK
    <2> QED
      BY <1>0, <2>1, <2>2 DEF RecordsOK
  <1>11. FrameOK(Closed(toServer[1].req, r, how), co.starts, sent, srv')
    BY <1>4, <1>5, FrameKinds
  <1>12. \A x \in late' : x \in late \/ FrameOK(x.f, co.starts, sent, srv')
    BY <1>2, <1>3, <1>4, <1>11 DEF Hold
  <1>13. ~IsDecision(toServer[1].o)
    BY DEF IsDecision, SealedRelay
  <1>14. \A k \in Rids : srv[k].state = "absent" =>
            srv'[k].state = "absent" \/ (toServer[1].o.t = "create" /\ k = toServer[1].o.rid)
    BY <1>5, <1>8
  <1> QED
    BY <1>1, <1>8, <1>9, <1>10, <1>12, <1>13, <1>14, HeadKeeps

(* The Host's handler at the service.                                      *)
LEMMA ServeHostKeeps ==
    ASSUME PairingInv, ServeHost
    PROVE  PairingInv'
  <1>1. /\ toServer # <<>> /\ toServer' = Tail(toServer)
        /\ UNCHANGED <<co, activity, link, sp, reqs, granted, sealed, clock>>
        /\ UNCHANGED <<toHost, sent>>
    BY DEF ServeHost, hostSide
  <1>2. PICK m : m = toServer[1] /\ m = Head(toServer)
    BY <1>1, HeadParts
  <1>3. clock \in Nat
    BY DEF PairingInv, Types
  <1>4. CASE /\ m.o.t = "create" /\ UNCHANGED inbox
             /\ \E exp \in {clock + Lifetime, clock + Lifetime - Skew} :
                  /\ srv' = [srv EXCEPT ![m.o.rid] = [state |-> "open", exp |-> exp,
                                                      peer |-> Host, how |-> "none"]]
                  /\ Hold(Host, [t |-> "created", req |-> m.req, rid |-> m.o.rid,
                                 kind |-> m.o.kind, exp |-> exp])
    <2>1. PICK exp \in {clock + Lifetime, clock + Lifetime - Skew} :
                  /\ srv' = [srv EXCEPT ![m.o.rid] = [state |-> "open", exp |-> exp,
                                                      peer |-> Host, how |-> "none"]]
                  /\ Hold(Host, [t |-> "created", req |-> m.req, rid |-> m.o.rid,
                                 kind |-> m.o.kind, exp |-> exp])
      BY <1>4
    <2>2. exp \in Int
      BY <1>3, Limits
    <2> QED
      BY <1>1, <1>2, <1>4, <2>1, <2>2, CreateServed
  <1>5. CASE /\ Hold(Host, Error(m.req)) /\ UNCHANGED <<srv, inbox>>
             /\ m.o.t = "relay" => srv[m.o.rid].state # "joined"
    BY <1>1, <1>2, <1>5, RefusalServed
  <1>6. CASE /\ m.o.t = "relay" /\ srv[m.o.rid].state = "joined" /\ UNCHANGED <<srv, late>>
             /\ inbox' = [inbox EXCEPT ![srv[m.o.rid].peer] = @ \cup {<<m.o.rid, m.o.envelope>>}]
    BY <1>1, <1>2, <1>6, RelayServed
  <1>7. CASE /\ m.o.t = "complete" /\ Open(m.o.rid) /\ UNCHANGED inbox
             /\ srv' = [srv EXCEPT ![m.o.rid].state = "gone", ![m.o.rid].how = m.o.how]
             /\ Hold(Host, Closed(m.req, m.o.rid, m.o.how))
    BY <1>1, <1>2, <1>7, CompleteServed
  <1> QED
    BY <1>2, <1>4, <1>5, <1>6, <1>7 DEF ServeHost

----------------------------------------------------------------------------
(* Every step keeps the invariant.                                         *)

LEMMA PairingInit == Init => PairingInv
  <1> SUFFICES ASSUME Init PROVE PairingInv
    OBVIOUS
  <1>0. /\ co = Start0 /\ activity = FALSE
        /\ link = "down" /\ sp = None /\ reqs = 0
        /\ toServer = <<>> /\ late = {} /\ toHost = <<>>
        /\ srv = [r \in Rids |-> [state |-> "absent", exp |-> 0, peer |-> Host, how |-> "none"]]
        /\ inbox = [c \in Controllers |-> {}] /\ sent = <<>>
        /\ granted = {} /\ sealed = {} /\ clock = 0
    BY DEF Init
  <1>1. Types
    <2>1. srv \in [Rids -> Entries]
      BY <1>0 DEF Entries, Peers
    <2>2. inbox \in [Controllers -> SUBSET (Rids \X Relayed)]
      BY <1>0
    <2>3. sp \in Protocols
      BY <1>0 DEF Protocols
    <2>4. /\ toServer \in Seq(Requests) /\ toHost \in Seq(FrameTypes)
          /\ sent \in Seq(UNION {Greetings(r) : r \in Rids})
      BY <1>0
    <2>5. granted \subseteq Controllers \X Rids
      BY <1>0
    <2> QED
      BY <1>0, <2>1, <2>2, <2>3, <2>4, <2>5 DEF Types
  <1>2. /\ co \in Coordinators /\ ~Active(co) /\ co.outbound = <<>> /\ co.conn = FALSE
        /\ co.starts = 0 /\ SealedIn(co.outbound) = {}
    <2>1. <<>> \in Seq(Messages)
      OBVIOUS
    <2> QED
      BY <1>0, <2>1, Limits DEF Start0, Coordinators, Statuses, Active, SealedIn
  <1>3. Good(co, sent, sealed, srv, granted, toServer)
    BY <1>0, <1>2 DEF Good, ActiveOK, OutOK, ProvedOK, SealsOK, MetOK
  <1>4. \A r \in Rids : srv[r].state = "absent" /\ srv[r].how = "none"
    BY <1>0
  <1>5. LedgerOK /\ RecordsOK(srv, inbox, granted)
    BY <1>0, <1>4 DEF LedgerOK, RecordsOK, GrantVerified
  <1>6. /\ RequestsOK(toServer, co.starts, srv, granted, inbox)
        /\ FramesOK(toHost, late, co.starts, sent, srv)
    BY <1>0 DEF RequestsOK, FramesOK
  <1>7. LayerOK /\ NoLostWakeup
    BY <1>0, <1>2 DEF LayerOK, NoLostWakeup
  <1> QED
    BY <1>1, <1>3, <1>5, <1>6, <1>7 DEF PairingInv

LEMMA PairingNext == PairingInv /\ [Next]_vars => PairingInv'
  <1> SUFFICES ASSUME PairingInv, [Next]_vars PROVE PairingInv'
    OBVIOUS
  <1>1. CASE User
    BY <1>1, StartKeeps, AcceptKeeps, UserKeeps DEF User
  <1>2. CASE Service
    <2>1. CASE ServeHost
      BY <2>1, ServeHostKeeps
    <2>2. CASE \E c \in Controllers, r \in Rids :
                 \/ ServeJoin(c, r)
                 \/ \E e \in ControllerEnvelopes(c, r) : ServeRelay(c, r, e)
                 \/ ServePeerGone(c, r)
      BY <2>2, TouchesKeep, RelayKeeps
    <2>3. CASE \E r \in Rids : ServeExpiry(r)
      BY <2>3, TouchesKeep
    <2>4. CASE StrayError \/ \E m \in late : Queue(m)
      BY <2>4, QueueKeeps
    <2> QED
      BY <1>2, <2>1, <2>2, <2>3, <2>4 DEF Service
  <1>3. CASE Task
    BY <1>3, TaskFlushKeeps, TaskReceiveKeeps, TaskEndsKeeps, TaskConnectKeeps DEF Task
  <1>4. CASE NetworkDrop \/ Advance \/ UNCHANGED vars
    BY <1>4, OutsideKeeps
  <1> QED
    BY <1>1, <1>2, <1>3, <1>4 DEF Next

(* What the invariant says of the layers and of the nonces.                *)
LEMMA InvLayers == PairingInv => LayersAgree
  <1> SUFFICES ASSUME PairingInv, link = "up", Active(co), co.active.phase # "Creating"
               PROVE  /\ sp # None /\ sp.rid = co.active.rid
                      /\ sp.phase = IF co.active.phase = "Inviting" THEN "Inviting" ELSE "Joined"
                      /\ co.active.phase # "Inviting" => sp.peer = co.active.peer
    BY DEF LayersAgree
  <1>1. co \in Coordinators /\ ActiveOK(co) /\ Layered(co, sp)
    BY DEF PairingInv, Good, LayerOK
  <1>2. Matches(co, sp)
    BY <1>1 DEF Layered, Pristine, InStep
  <1>3. co.active \in Pairings /\ co.active.rid = co.starts
    BY <1>1 DEF Coordinators, ActiveOK, Active
  <1>4. co.active.phase = "Inviting" \/ co.active.phase \in Late
    BY <1>3 DEF Pairings, Phases, Late
  <1>5. co.active.phase \in Late => co.active.phase # "Inviting"
    BY DEF Late
  <1> QED
    BY <1>2, <1>3, <1>4, <1>5 DEF Matches

LEMMA InvNonces == PairingInv => NonceOnce
  <1> SUFFICES ASSUME PairingInv PROVE NonceOnce
    OBVIOUS
  <1>1. SealsOK(co, sealed \cup SealedIn(co.outbound))
    BY DEF PairingInv, Good
  <1> QED
    BY <1>1, SealsNonces DEF NonceOnce

(* The inductive invariant of pairing: the coordinator, what is on its way *)
(* to the service and back, what the service recorded, and the layers.     *)
THEOREM PairingInvariant == Spec => []PairingInv
  BY PairingInit, PairingNext, PTL DEF Spec

(* GrantVerified: accept stores a grant only for a Controller that signed  *)
(* its greeting and confirmed the same transcript in that rendezvous, for  *)
(* any number of Controllers and invitations, whatever is reordered.       *)
THEOREM GrantsAreVerified == Spec => []GrantVerified
  <1>1. PairingInv => GrantVerified
    BY DEF PairingInv, LedgerOK
  <1> QED
    BY <1>1, PairingInvariant, PTL

(* DecisionTruthful: a Controller is told "accepted" only once its grant   *)
(* is stored, and the service records a success only after the Controller  *)
(* was sent the decision (accept queues decision, then completion).        *)
THEOREM DecisionsAreTruthful == Spec => []DecisionTruthful
  <1>1. PairingInv => DecisionTruthful
    BY RecordsTruthful DEF PairingInv
  <1> QED
    BY <1>1, PairingInvariant, PTL

(* NonceOnce: pairing_crypto seals no two bodies under one key and nonce.  *)
THEOREM NoncesAreUsedOnce == Spec => []NonceOnce
  BY InvNonces, PairingInvariant, PTL

(* LayersAgree: on a connection that is up, the coordinator's pairing and  *)
(* SignalingProtocol's rendezvous are the same, in matching phases.        *)
THEOREM LayersAlwaysAgree == Spec => []LayersAgree
  BY InvLayers, PairingInvariant, PTL

(* NoLostWakeup: what the coordinator queues always has a notification     *)
(* pending for the task, or the task has ended.                            *)
THEOREM WakeupsAreKept == Spec => []NoLostWakeup
  <1>1. PairingInv => NoLostWakeup
    BY DEF PairingInv
  <1> QED
    BY <1>1, PairingInvariant, PTL
=============================================================================
