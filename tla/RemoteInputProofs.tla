------------------------- MODULE RemoteInputProofs -------------------------
(***************************************************************************)
(* Reliable input is safe for any keys, any queue and any number of        *)
(* envelopes and connection events.                                        *)
(*                                                                         *)
(* The events on their way, from the Host's queue through the channel to   *)
(* the sender's queue, are one line.  The sender adds to its end, cancels  *)
(* its last part and closes it with a release; the Host takes from its     *)
(* front; a connection event enters in the middle.  A key is settled when  *)
(* whoever presses it in the line, or holds it at the Host, is followed by *)
(* its release: then it may be pressed again.                              *)
(***************************************************************************)
EXTENDS RemoteInput, SequenceTheorems, TLAPS

(* What the variables hold.                                                *)
InputEvents == [kind : {"down", "up"}, key : Keys] \cup {ReleaseAll, CloseControl}
Envelopes == [seq : Nat \ {0}, event : InputEvents]
Signals == {Signal("connected"), Signal("lost")}
Items == Envelopes \cup Signals
States == {"connected", "reconnecting", "closing", "failed", "gone"}
Senders ==
    [suspended : BOOLEAN, releaseSent : BOOLEAN, failed : BOOLEAN, closed : BOOLEAN,
     queue : Seq(InputEvents), inFlight : InputEvents \cup {Nil}, seq : Nat]
Hosts ==
    [peer : {"Connected", "Reconnecting", "Closed"}, suspended : BOOLEAN, last : Nat,
     dropped : Nat, pressed : SUBSET Keys, why : {Nil, "sequence", "failed", "close", "ended"}]
Types ==
    /\ state \in States /\ sender \in Senders /\ held \subseteq Keys /\ focus \in BOOLEAN
    /\ wire \in Seq(Envelopes) /\ events \in Seq(Items)
    /\ host \in Hosts

----------------------------------------------------------------------------
(* The line of events, from the Host's next one to the sender's last one.  *)
Size(ev, w, q) == Len(ev) + Len(w) + Len(q)
Line(ev, w, q) ==
    [i \in 1..Size(ev, w, q) |->
       IF i <= Len(ev) THEN ev[i].event
       ELSE IF i <= Len(ev) + Len(w) THEN w[i - Len(ev)].event
       ELSE q[i - Len(ev) - Len(w)]]

Lifts(e) == e.kind \in {"release", "lost"}
Frees(e, k) == Lifts(e) \/ (e.kind = "up" /\ e.key = k)
Presses(e, k) == e.kind = "down" /\ e.key = k

(* Key k, of those the Host holds and those pressed in the first n events, *)
(* is released before they end.                                            *)
Settled(Z, n, P, k) ==
    /\ k \in P => \E i \in 1..n : Frees(Z[i], k)
    /\ \A i \in 1..n : Presses(Z[i], k) => \E j \in i + 1..n : Frees(Z[j], k)
(* No key is pressed again before it was released.                         *)
NoRepress(Z, n, P) ==
    \A j \in 1..n, k \in Keys : Presses(Z[j], k) => Settled(Z, j - 1, P, k)
(* Everything is released, at once, before the events end.                 *)
AllLifted(Z, n, P) ==
    /\ P # {} => \E i \in 1..n : Lifts(Z[i])
    /\ \A i \in 1..n : Z[i].kind = "down" => \E j \in i + 1..n : Lifts(Z[j])

(* The last envelope, or the one before the first, has number n.           *)
Tip(T, b, n) ==
    /\ Quiet(T, 0, Len(T) + 1) => b = n
    /\ \A i \in 1..Len(T) : IsInput(T[i]) /\ Quiet(T, i, Len(T) + 1) => T[i].seq = n

----------------------------------------------------------------------------
(* The invariant.                                                          *)
Alive == state \in {"connected", "reconnecting"}
SenderOK ==
    /\ Alive => /\ ~sender.failed /\ ~sender.closed
                /\ sender.suspended <=> state = "reconnecting"
                /\ ~focus \/ sender.suspended => sender.releaseSent
                /\ sender.releaseSent => sender.queue = <<>> \/ sender.queue = <<ReleaseAll>>
    /\ state = "closing" => ~sender.failed /\ sender.releaseSent
    /\ sender.failed => /\ state \in {"failed", "gone"}
                        /\ sender.queue = <<>> /\ sender.inFlight = Nil
    /\ state = "failed" => sender.failed
    /\ state = "gone" => sender.queue = <<>> /\ sender.inFlight = Nil /\ wire = <<>>
HostOK == host.suspended \/ host.peer = "Closed" => host.pressed = {}

PressOK(Z, n) ==
    /\ NoRepress(Z, n, host.pressed)
    /\ Alive /\ ~sender.releaseSent =>
         \A k \in Keys : Settled(Z, n, host.pressed, k) \/ k \in held
    /\ (sender.releaseSent /\ state # "failed") \/ state = "gone" =>
         AllLifted(Z, n, host.pressed)
ChainOK(T) ==
    /\ Contiguous(T, host.last + host.dropped)
    /\ ~sender.failed /\ state # "gone" => Tip(T, host.last + host.dropped, sender.seq)

InputInv ==
    /\ Types /\ SenderOK /\ HostOK
    /\ host.peer # "Closed" =>
         /\ PressOK(Line(events, wire, sender.queue), Size(events, wire, sender.queue))
         /\ ChainOK(events \o wire)

----------------------------------------------------------------------------
(* Keys in a line of events.                                               *)

(* Only the events count.                                                  *)
LEMMA Alike ==
    ASSUME NEW n \in Nat, NEW Z, NEW W, \A i \in 1..n : W[i] = Z[i], NEW P
    PROVE  /\ \A k : Settled(Z, n, P, k) => Settled(W, n, P, k)
           /\ NoRepress(Z, n, P) => NoRepress(W, n, P)
           /\ AllLifted(Z, n, P) => AllLifted(W, n, P)
  <1>1. ASSUME NEW m \in Nat, m <= n, NEW k, Settled(Z, m, P, k)
        PROVE  Settled(W, m, P, k)
    <2>1. \A i \in 1..m : W[i] = Z[i]
      BY <1>1
    <2>2. ASSUME NEW i \in 1..m, Presses(W[i], k)
          PROVE  \E j \in i + 1..m : Frees(W[j], k)
      <3>1. PICK j \in i + 1..m : Frees(Z[j], k)
        BY <1>1, <2>1, <2>2 DEF Settled
      <3>2. j \in 1..m
        BY <1>1
      <3> QED
        BY <2>1, <3>1, <3>2
    <2>3. k \in P => \E i \in 1..m : Frees(W[i], k)
      BY <1>1, <2>1 DEF Settled
    <2> QED
      BY <2>2, <2>3 DEF Settled
  <1>2. ASSUME NoRepress(Z, n, P), NEW j \in 1..n, NEW k \in Keys, Presses(W[j], k)
        PROVE  Settled(W, j - 1, P, k)
    <2>1. Settled(Z, j - 1, P, k) /\ j - 1 \in Nat /\ j - 1 <= n
      BY <1>2 DEF NoRepress
    <2> QED
      BY <1>1, <2>1
  <1>3. ASSUME AllLifted(Z, n, P), NEW i \in 1..n, W[i].kind = "down"
        PROVE  \E j \in i + 1..n : Lifts(W[j])
    <2>1. PICK j \in i + 1..n : Lifts(Z[j])
      BY <1>3 DEF AllLifted
    <2>2. j \in 1..n
      OBVIOUS
    <2> QED
      BY <2>1, <2>2
  <1>4. n \in Nat /\ n <= n
    OBVIOUS
  <1>5. \A k : Settled(Z, n, P, k) => Settled(W, n, P, k)
    BY <1>1, <1>4
  <1>6. NoRepress(Z, n, P) => NoRepress(W, n, P)
    BY <1>2 DEF NoRepress
  <1>7. AllLifted(Z, n, P) => AllLifted(W, n, P)
    BY <1>3 DEF AllLifted
  <1> QED
    BY <1>5, <1>6, <1>7

(* One more event at the end.                                              *)
LEMMA Longer ==
    ASSUME NEW n \in Nat, NEW Z, NEW W, \A i \in 1..n : W[i] = Z[i], NEW P
    PROVE  /\ \A k : Frees(W[n + 1], k) \/ (Settled(Z, n, P, k) /\ ~Presses(W[n + 1], k))
                => Settled(W, n + 1, P, k)
           /\ NoRepress(Z, n, P) /\ (\A k \in Keys : Presses(W[n + 1], k) => Settled(Z, n, P, k))
                => NoRepress(W, n + 1, P)
           /\ (AllLifted(Z, n, P) /\ W[n + 1].kind # "down") \/ Lifts(W[n + 1])
                => AllLifted(W, n + 1, P)
  <1>0. /\ n + 1 \in 1..n + 1 /\ (n + 1) - 1 = n /\ \A i \in 1..n + 1 : i \in 1..n \/ i = n + 1
        /\ \A i \in 1..n : i \in 1..n + 1 /\ n + 1 \in i + 1..n + 1
        /\ \A i \in 1..n : \A j \in i + 1..n : j \in i + 1..n + 1 /\ j \in 1..n
    OBVIOUS
  <1>1. ASSUME NEW k, Settled(Z, n, P, k), ~Presses(W[n + 1], k)
        PROVE  Settled(W, n + 1, P, k)
    <2>1. k \in P => \E i \in 1..n + 1 : Frees(W[i], k)
      BY <1>0, <1>1 DEF Settled
    <2>2. ASSUME NEW i \in 1..n + 1, Presses(W[i], k)
          PROVE  \E j \in i + 1..n + 1 : Frees(W[j], k)
      <3>1. i \in 1..n
        BY <1>0, <1>1, <2>2
      <3>2. PICK j \in i + 1..n : Frees(Z[j], k)
        BY <1>1, <2>2, <3>1 DEF Settled
      <3> QED
        BY <1>0, <3>1, <3>2
    <2> QED
      BY <2>1, <2>2 DEF Settled
  <1>2. ASSUME NEW k, Frees(W[n + 1], k)
        PROVE  Settled(W, n + 1, P, k)
    <2>1. ~Presses(W[n + 1], k)
      BY <1>2 DEF Frees, Lifts, Presses
    <2> QED
      BY <1>0, <1>2, <2>1 DEF Settled
  <1>3. ASSUME NoRepress(Z, n, P), \A k \in Keys : Presses(W[n + 1], k) => Settled(Z, n, P, k),
               NEW j \in 1..n + 1, NEW k \in Keys, Presses(W[j], k)
        PROVE  Settled(W, j - 1, P, k)
    <2>1. PICK m \in Nat : m = j - 1 /\ m <= n
      OBVIOUS
    <2>2. Settled(Z, m, P, k)
      BY <1>0, <1>3, <2>1 DEF NoRepress
    <2>3. \A i \in 1..m : W[i] = Z[i]
      BY <2>1
    <2> QED
      BY <2>1, <2>2, <2>3, Alike
  <1>4. ASSUME AllLifted(Z, n, P), W[n + 1].kind # "down"
        PROVE  AllLifted(W, n + 1, P)
    <2>1. P # {} => \E i \in 1..n + 1 : Lifts(W[i])
      BY <1>0, <1>4 DEF AllLifted
    <2>2. ASSUME NEW i \in 1..n + 1, W[i].kind = "down"
          PROVE  \E j \in i + 1..n + 1 : Lifts(W[j])
      <3>1. i \in 1..n
        BY <1>0, <1>4, <2>2
      <3>2. PICK j \in i + 1..n : Lifts(Z[j])
        BY <1>4, <2>2, <3>1 DEF AllLifted
      <3> QED
        BY <1>0, <3>1, <3>2
    <2> QED
      BY <2>1, <2>2 DEF AllLifted
  <1>5. ASSUME Lifts(W[n + 1])
        PROVE  AllLifted(W, n + 1, P)
    BY <1>0, <1>5 DEF AllLifted, Lifts
  <1>6. NoRepress(Z, n, P) /\ (\A k \in Keys : Presses(W[n + 1], k) => Settled(Z, n, P, k))
          => NoRepress(W, n + 1, P)
    BY <1>3 DEF NoRepress
  <1> QED
    BY <1>1, <1>2, <1>4, <1>5, <1>6

(* The Host takes the first event: it holds no key that the event frees,   *)
(* and no new one but the key that the event presses.                      *)
LEMMA Shorter ==
    ASSUME NEW n \in Nat, NEW Z, NEW W, \A i \in 1..n : W[i] = Z[i + 1], NEW P,
           NEW Q \in SUBSET Keys,
           \A k \in Q : (k \in P /\ ~Frees(Z[1], k)) \/ Presses(Z[1], k)
    PROVE  /\ \A k \in Keys : Settled(Z, n + 1, P, k) => Settled(W, n, Q, k)
           /\ NoRepress(Z, n + 1, P) => NoRepress(W, n, Q)
           /\ AllLifted(Z, n + 1, P) => AllLifted(W, n, Q)
  <1>1. ASSUME NEW m \in Nat, m <= n, NEW k \in Keys, Settled(Z, m + 1, P, k)
        PROVE  Settled(W, m, Q, k)
    <2>1. ASSUME k \in Q
          PROVE  \E i \in 1..m : Frees(W[i], k)
      <3>1. PICK j \in 1..m + 1 : Frees(Z[j], k) /\ j # 1
        <4>1. CASE Presses(Z[1], k)
          <5>1. 1 \in 1..m + 1 /\ \A j \in 1 + 1..m + 1 : j \in 1..m + 1 /\ j # 1
            BY <1>1
          <5> QED
            BY <1>1, <4>1, <5>1 DEF Settled
        <4>2. CASE k \in P /\ ~Frees(Z[1], k)
          BY <1>1, <4>2 DEF Settled
        <4> QED
          BY <2>1, <4>1, <4>2
      <3>2. PICK i \in 1..m : i + 1 = j
        <4>1. j - 1 \in 1..m /\ (j - 1) + 1 = j
          BY <1>1, <3>1
        <4> QED
          BY <4>1
      <3>3. W[i] = Z[j]
        BY <1>1, <3>2
      <3> QED
        BY <3>1, <3>3
    <2>2. ASSUME NEW i \in 1..m, Presses(W[i], k)
          PROVE  \E j \in i + 1..m : Frees(W[j], k)
      <3>1. i + 1 \in 1..m + 1 /\ W[i] = Z[i + 1]
        BY <1>1
      <3>2. PICK j \in (i + 1) + 1..m + 1 : Frees(Z[j], k)
        BY <1>1, <2>2, <3>1 DEF Settled
      <3>3. PICK l \in i + 1..m : l + 1 = j
        <4>1. j - 1 \in i + 1..m /\ (j - 1) + 1 = j
          BY <1>1, <3>2
        <4> QED
          BY <4>1
      <3>4. W[l] = Z[j]
        BY <1>1, <3>3
      <3> QED
        BY <3>2, <3>4
    <2> QED
      BY <2>1, <2>2 DEF Settled
  <1>2. ASSUME NoRepress(Z, n + 1, P), NEW j \in 1..n, NEW k \in Keys, Presses(W[j], k)
        PROVE  Settled(W, j - 1, Q, k)
    <2>1. PICK m \in Nat : m = j - 1 /\ m <= n /\ m + 1 = j
      OBVIOUS
    <2>2. W[j] = Z[j + 1] /\ j + 1 \in 1..n + 1 /\ (j + 1) - 1 = m + 1
      BY <2>1
    <2>3. Settled(Z, m + 1, P, k)
      BY <1>2, <2>2 DEF NoRepress
    <2> QED
      BY <1>1, <2>1, <2>3
  <1>3. ASSUME AllLifted(Z, n + 1, P)
        PROVE  AllLifted(W, n, Q)
    <2>1. ASSUME Q # {}
          PROVE  \E i \in 1..n : Lifts(W[i])
      <3>1. PICK k \in Q : k \in Keys
        BY <2>1
      <3>2. PICK j \in 1..n + 1 : Lifts(Z[j]) /\ j # 1
        <4>1. CASE Presses(Z[1], k)
          <5>1. 1 \in 1..n + 1 /\ \A j \in 1 + 1..n + 1 : j \in 1..n + 1 /\ j # 1
            OBVIOUS
          <5> QED
            BY <1>3, <4>1, <5>1 DEF AllLifted, Presses
        <4>2. CASE k \in P /\ ~Frees(Z[1], k)
          BY <1>3, <4>2 DEF AllLifted, Frees
        <4> QED
          BY <3>1, <4>1, <4>2
      <3>3. PICK i \in 1..n : i + 1 = j
        <4>1. j - 1 \in 1..n /\ (j - 1) + 1 = j
          BY <3>2
        <4> QED
          BY <4>1
      <3> QED
        BY <3>2, <3>3
    <2>2. ASSUME NEW i \in 1..n, W[i].kind = "down"
          PROVE  \E j \in i + 1..n : Lifts(W[j])
      <3>1. i + 1 \in 1..n + 1 /\ W[i] = Z[i + 1]
        OBVIOUS
      <3>2. PICK j \in (i + 1) + 1..n + 1 : Lifts(Z[j])
        BY <1>3, <2>2, <3>1 DEF AllLifted
      <3>3. PICK l \in i + 1..n : l + 1 = j
        <4>1. j - 1 \in i + 1..n /\ (j - 1) + 1 = j
          BY <3>2
        <4> QED
          BY <4>1
      <3>4. W[l] = Z[j]
        BY <3>3
      <3> QED
        BY <3>2, <3>4
    <2> QED
      BY <2>1, <2>2 DEF AllLifted
  <1>4. n <= n
    OBVIOUS
  <1>5. NoRepress(Z, n + 1, P) => NoRepress(W, n, Q)
    BY <1>2 DEF NoRepress
  <1> QED
    BY <1>1, <1>3, <1>4, <1>5

(* A connection event enters the line behind its first p events.           *)
Entered(Z, n, p, e, W) ==
    /\ \A i \in 1..p : W[i] = Z[i]
    /\ W[p + 1] = e
    /\ \A i \in p + 1..n : W[i + 1] = Z[i]
LEMMA Inserted ==
    ASSUME NEW n \in Nat, NEW p \in 0..n, NEW Z, NEW W, NEW e, Entered(Z, n, p, e, W),
           e.kind # "down", NEW P
    PROVE  /\ \A k : Settled(Z, n, P, k) => Settled(W, n + 1, P, k)
           /\ NoRepress(Z, n, P) => NoRepress(W, n + 1, P)
           /\ AllLifted(Z, n, P) => AllLifted(W, n + 1, P)
  <1> DEFINE To(i) == IF i <= p THEN i ELSE i + 1
  <1>0. p \in Nat /\ p <= n
    OBVIOUS
  <1>1. ASSUME NEW i \in 1..n
        PROVE  To(i) \in 1..n + 1 /\ W[To(i)] = Z[i]
    BY <1>0 DEF Entered
  <1>2. ASSUME NEW i \in 1..n + 1, W[i].kind = "down"
        PROVE  \E l \in 1..n : i = To(l)
    <2>1. i # p + 1
      BY <1>2 DEF Entered
    <2>2. CASE i <= p
      BY <1>0, <2>2
    <2>3. CASE i > p + 1
      <3>1. i - 1 \in 1..n /\ To(i - 1) = i
        BY <1>0, <2>3
      <3> QED
        BY <3>1
    <2> QED
      BY <1>0, <2>1, <2>2, <2>3
  <1>3. \A i, j \in 1..n : i < j => To(i) < To(j)
    BY <1>0
  <1>4. \A i \in 1..n : \A m \in 0..n : m >= p /\ i <= m => To(i) <= m + 1
    BY <1>0
  <1> HIDE DEF To
  <1>5. ASSUME NEW m \in 0..n, m >= p, NEW k, Settled(Z, m, P, k)
        PROVE  Settled(W, m + 1, P, k)
    <2>0. \A i \in 1..m : i \in 1..n
      OBVIOUS
    <2>1. \A i \in 1..m : To(i) \in 1..m + 1 /\ W[To(i)] = Z[i]
      BY <1>1, <1>4, <1>5, <2>0
    <2>2. k \in P => \E i \in 1..m + 1 : Frees(W[i], k)
      BY <1>5, <2>1 DEF Settled
    <2>3. ASSUME NEW i \in 1..m + 1, Presses(W[i], k)
          PROVE  \E j \in i + 1..m + 1 : Frees(W[j], k)
      <3>1. PICK l \in 1..n : i = To(l)
        BY <1>2, <2>3 DEF Presses
      <3>2. l <= m
        <4>1. CASE l > m
          <5>1. l > p
            BY <1>0, <1>5, <4>1
          <5>2. To(l) = l + 1
            BY <1>0, <5>1 DEF To
          <5> QED
            BY <3>1, <4>1, <5>2
        <4> QED
          BY <4>1
      <3>3. l \in 1..m /\ Presses(Z[l], k)
        BY <2>1, <2>3, <3>1, <3>2
      <3>4. PICK j \in l + 1..m : Frees(Z[j], k)
        BY <1>5, <3>3 DEF Settled
      <3>5. j \in 1..m /\ l < j
        BY <3>3
      <3>6. To(j) \in 1..m + 1 /\ To(l) < To(j) /\ W[To(j)] = Z[j]
        BY <1>3, <2>0, <2>1, <3>3, <3>5
      <3>7. To(j) \in i + 1..m + 1
        BY <3>1, <3>6
      <3> QED
        BY <3>4, <3>6, <3>7
    <2> QED
      BY <2>2, <2>3 DEF Settled
  <1>6. ASSUME NoRepress(Z, n, P), NEW j \in 1..n + 1, NEW k \in Keys, Presses(W[j], k)
        PROVE  Settled(W, j - 1, P, k)
    <2>1. PICK l \in 1..n : j = To(l) /\ W[j] = Z[l]
      BY <1>1, <1>2, <1>6 DEF Presses
    <2>2. PICK m \in 0..n : m = l - 1
      <3>1. l - 1 \in 0..n
        OBVIOUS
      <3> QED
        BY <3>1
    <2>3. Settled(Z, m, P, k)
      BY <1>6, <2>1, <2>2 DEF NoRepress
    <2>4. CASE l <= p
      <3>1. j - 1 = m /\ m \in Nat /\ \A i \in 1..m : W[i] = Z[i]
        BY <1>0, <2>1, <2>2, <2>4 DEF To, Entered
      <3> QED
        BY <2>3, <3>1, Alike
    <2>5. CASE ~(l <= p)
      <3>1. j - 1 = m + 1 /\ m >= p
        BY <1>0, <2>1, <2>2, <2>5 DEF To
      <3> QED
        BY <1>5, <2>3, <3>1
    <2> QED
      BY <2>4, <2>5
  <1>7. ASSUME AllLifted(Z, n, P)
        PROVE  AllLifted(W, n + 1, P)
    <2>1. P # {} => \E i \in 1..n + 1 : Lifts(W[i])
      BY <1>1, <1>7 DEF AllLifted
    <2>2. ASSUME NEW i \in 1..n + 1, W[i].kind = "down"
          PROVE  \E j \in i + 1..n + 1 : Lifts(W[j])
      <3>1. PICK l \in 1..n : i = To(l) /\ W[i] = Z[l]
        BY <1>1, <1>2, <2>2
      <3>2. PICK j \in l + 1..n : Lifts(Z[j])
        BY <1>7, <2>2, <3>1 DEF AllLifted
      <3>3. j \in 1..n /\ l < j
        BY <3>1
      <3>4. To(j) \in 1..n + 1 /\ To(l) < To(j) /\ W[To(j)] = Z[j]
        BY <1>1, <1>3, <3>1, <3>3
      <3>5. To(j) \in i + 1..n + 1
        BY <3>1, <3>4
      <3> QED
        BY <3>2, <3>4, <3>5
    <2> QED
      BY <2>1, <2>2 DEF AllLifted
  <1>8. n \in 0..n /\ n >= p
    BY <1>0
  <1>9. NoRepress(Z, n, P) => NoRepress(W, n + 1, P)
    BY <1>6 DEF NoRepress
  <1> QED
    BY <1>5, <1>7, <1>8, <1>9

----------------------------------------------------------------------------
(* Numbers in a line of envelopes and connection events.                   *)

(* The last part is cut off.                                               *)
LEMMA CutContiguous ==
    ASSUME NEW T, NEW U, NEW n \in Nat, n = Len(U), NEW m \in Nat, m = Len(T), n <= m,
           \A i \in 1..n : U[i] = T[i], NEW b, Contiguous(T, b)
    PROVE  Contiguous(U, b)
  <1> SUFFICES ASSUME NEW j \in 1..n, IsInput(U[j])
               PROVE  /\ Quiet(U, 0, j) => U[j].seq = b + 1
                      /\ \A i \in 1..j - 1 : IsInput(U[i]) /\ Quiet(U, i, j) => U[j].seq = U[i].seq + 1
    BY DEF Contiguous
  <1>1. j \in 1..m /\ U[j] = T[j] /\ \A i \in 1..j - 1 : i \in 1..n
    OBVIOUS
  <1>2. \A i \in 0..j - 1 : \A l \in i + 1..j - 1 : l \in 1..n
    OBVIOUS
  <1>3. \A i \in 0..j - 1 : Quiet(U, i, j) => Quiet(T, i, j)
    BY <1>2 DEF Quiet
  <1>4. 0 \in 0..j - 1 /\ \A i \in 1..j - 1 : i \in 0..j - 1
    OBVIOUS
  <1> QED
    BY <1>1, <1>3, <1>4 DEF Contiguous

(* One more at the end: the next number, or none.                          *)
LEMMA AddContiguous ==
    ASSUME NEW T, NEW U, NEW n \in Nat, n = Len(T), n + 1 = Len(U),
           \A i \in 1..n : U[i] = T[i], NEW b, Contiguous(T, b), NEW c,
           IsInput(U[n + 1]) => Tip(T, b, c) /\ U[n + 1].seq = c + 1
    PROVE  /\ Contiguous(U, b)
           /\ IsInput(U[n + 1]) => Tip(U, b, c + 1)
  <1>1. \A i \in 0..n + 1, j \in 1..n + 1 : Quiet(U, i, j) => Quiet(T, i, j)
    <2>1. \A i \in 0..n + 1, j \in 1..n + 1 : \A l \in i + 1..j - 1 : l \in 1..n
      OBVIOUS
    <2> QED
      BY <2>1 DEF Quiet
  <1>2. /\ \A j \in 1..n + 1 : j \in 1..n \/ j = n + 1
        /\ \A j \in 1..n + 1 : \A i \in 1..j - 1 : i \in 1..n /\ i \in 0..n + 1
        /\ 0 \in 0..n + 1 /\ n + 1 \in 1..n + 1
    OBVIOUS
  <1>3. ASSUME NEW j \in 1..n + 1, IsInput(U[j])
        PROVE  /\ Quiet(U, 0, j) => U[j].seq = b + 1
               /\ \A i \in 1..j - 1 : IsInput(U[i]) /\ Quiet(U, i, j) => U[j].seq = U[i].seq + 1
    <2>1. CASE j \in 1..n
      BY <1>1, <1>2, <1>3, <2>1 DEF Contiguous
    <2>2. CASE j = n + 1
      BY <1>1, <1>2, <1>3, <2>2 DEF Tip
    <2> QED
      BY <1>2, <2>1, <2>2
  <1>4. Contiguous(U, b)
    BY <1>3 DEF Contiguous
  <1>5. ASSUME IsInput(U[n + 1])
        PROVE  Tip(U, b, c + 1)
    <2>1. \A i \in 0..n : n + 1 \in i + 1..(n + 2) - 1
      OBVIOUS
    <2>2. \A i \in 0..n : ~Quiet(U, i, n + 2)
      BY <1>5, <2>1 DEF Quiet
    <2>3. Len(U) + 1 = n + 2 /\ \A i \in 1..n + 1 : i \in 0..n \/ i = n + 1
      OBVIOUS
    <2>4. 0 \in 0..n
      OBVIOUS
    <2> QED
      BY <1>5, <2>2, <2>3, <2>4 DEF Tip
  <1> QED
    BY <1>4, <1>5

(* The first one is taken.                                                 *)
LEMMA TakeContiguous ==
    ASSUME NEW T, NEW U, NEW n \in Nat, n + 1 = Len(T), n = Len(U),
           \A i \in 1..n : U[i] = T[i + 1], NEW b \in Nat, Contiguous(T, b),
           NEW d \in Nat, d = IF IsInput(T[1]) THEN b + 1 ELSE b
    PROVE  /\ IsInput(T[1]) => T[1].seq = b + 1
           /\ Contiguous(U, d)
           /\ \A c : Tip(T, b, c) => Tip(U, d, c)
  <1>1. 1 \in 1..n + 1 /\ Quiet(T, 0, 1)
    BY DEF Quiet
  <1>2. IsInput(T[1]) => T[1].seq = b + 1
    BY <1>1 DEF Contiguous
  <1>3. ASSUME NEW i \in 0..n, NEW j \in 1..n + 1, Quiet(U, i, j)
        PROVE  Quiet(T, i + 1, j + 1)
    <2> SUFFICES ASSUME NEW l \in (i + 1) + 1..(j + 1) - 1
                 PROVE  ~IsInput(T[l])
      BY DEF Quiet
    <2>1. PICK m \in i + 1..j - 1 : m + 1 = l /\ m \in 1..n
      <3>1. l - 1 \in i + 1..j - 1 /\ (l - 1) + 1 = l /\ l - 1 \in 1..n
        OBVIOUS
      <3> QED
        BY <3>1
    <2>2. U[m] = T[l]
      BY <2>1
    <2> QED
      BY <1>3, <2>1, <2>2 DEF Quiet
  <1>4. ASSUME ~IsInput(T[1]), NEW j \in 1..n + 1, Quiet(U, 0, j)
        PROVE  Quiet(T, 0, j + 1)
    <2>1. Quiet(T, 0 + 1, j + 1)
      BY <1>3, <1>4
    <2>2. \A l \in 0 + 1..(j + 1) - 1 : l = 1 \/ l \in (0 + 1) + 1..(j + 1) - 1
      OBVIOUS
    <2> QED
      BY <1>4, <2>1, <2>2 DEF Quiet
  <1>5. ASSUME NEW j \in 1..n, IsInput(U[j])
        PROVE  /\ Quiet(U, 0, j) => U[j].seq = d + 1
               /\ \A i \in 1..j - 1 : IsInput(U[i]) /\ Quiet(U, i, j) => U[j].seq = U[i].seq + 1
    <2>1. U[j] = T[j + 1] /\ j + 1 \in 1..n + 1 /\ j \in 1..n + 1 /\ 0 \in 0..n
      OBVIOUS
    <2>2. ASSUME Quiet(U, 0, j)
          PROVE  U[j].seq = d + 1
      <3>1. CASE IsInput(T[1])
        <4>1. Quiet(T, 0 + 1, j + 1) /\ 1 \in 1..(j + 1) - 1
          BY <1>3, <2>1, <2>2
        <4>2. T[j + 1].seq = T[1].seq + 1
          BY <1>5, <2>1, <3>1, <4>1 DEF Contiguous
        <4> QED
          BY <1>2, <2>1, <3>1, <4>2
      <3>2. CASE ~IsInput(T[1])
        <4>1. Quiet(T, 0, j + 1)
          BY <1>4, <2>1, <2>2, <3>2
        <4> QED
          BY <1>5, <2>1, <3>2, <4>1 DEF Contiguous
      <3> QED
        BY <3>1, <3>2
    <2>3. ASSUME NEW i \in 1..j - 1, IsInput(U[i]), Quiet(U, i, j)
          PROVE  U[j].seq = U[i].seq + 1
      <3>1. U[i] = T[i + 1] /\ i + 1 \in 1..(j + 1) - 1 /\ i \in 0..n
        OBVIOUS
      <3>2. Quiet(T, i + 1, j + 1)
        BY <1>3, <2>1, <2>3, <3>1
      <3> QED
        BY <1>5, <2>1, <2>3, <3>1, <3>2 DEF Contiguous
    <2> QED
      BY <2>2, <2>3
  <1>6. ASSUME NEW c, Tip(T, b, c)
        PROVE  Tip(U, d, c)
    <2>1. Len(U) + 1 = n + 1 /\ Len(T) + 1 = (n + 1) + 1 /\ n + 1 \in 1..n + 1 /\ 0 \in 0..n
      OBVIOUS
    <2>2. ASSUME Quiet(U, 0, n + 1)
          PROVE  d = c
      <3>1. CASE IsInput(T[1])
        <4>1. Quiet(T, 0 + 1, (n + 1) + 1)
          BY <1>3, <2>1, <2>2
        <4>2. T[1].seq = c
          BY <1>1, <1>6, <2>1, <3>1, <4>1 DEF Tip
        <4> QED
          BY <1>2, <3>1, <4>2
      <3>2. CASE ~IsInput(T[1])
        <4>1. Quiet(T, 0, (n + 1) + 1)
          BY <1>4, <2>1, <2>2, <3>2
        <4> QED
          BY <1>6, <2>1, <3>2, <4>1 DEF Tip
      <3> QED
        BY <3>1, <3>2
    <2>3. ASSUME NEW i \in 1..n, IsInput(U[i]), Quiet(U, i, n + 1)
          PROVE  U[i].seq = c
      <3>1. U[i] = T[i + 1] /\ i + 1 \in 1..n + 1 /\ i \in 0..n
        OBVIOUS
      <3>2. Quiet(T, i + 1, (n + 1) + 1)
        BY <1>3, <2>1, <2>3, <3>1
      <3> QED
        BY <1>6, <2>1, <2>3, <3>1, <3>2 DEF Tip
    <2> QED
      BY <2>1, <2>2, <2>3 DEF Tip
  <1>7. Contiguous(U, d)
    BY <1>5 DEF Contiguous
  <1> QED
    BY <1>2, <1>6, <1>7

(* A connection event enters behind the first p of them.                   *)
LEMMA EnterContiguous ==
    ASSUME NEW T, NEW U, NEW n \in Nat, n = Len(T), n + 1 = Len(U), NEW p \in 0..n,
           NEW e, Entered(T, n, p, e, U), ~IsInput(e), NEW b, Contiguous(T, b)
    PROVE  /\ Contiguous(U, b)
           /\ \A c : Tip(T, b, c) => Tip(U, b, c)
  <1> DEFINE To(i) == IF i <= p THEN i ELSE i + 1
  <1>0. p \in Nat /\ p <= n /\ To(0) = 0 /\ To(n + 1) = n + 2
    OBVIOUS
  <1>1. ASSUME NEW i \in 1..n
        PROVE  To(i) \in 1..n + 1 /\ U[To(i)] = T[i]
    BY <1>0 DEF Entered
  <1>2. ASSUME NEW i \in 1..n + 1, IsInput(U[i])
        PROVE  \E l \in 1..n : i = To(l)
    <2>1. i # p + 1
      BY <1>2 DEF Entered
    <2>2. CASE i <= p
      BY <1>0, <2>2
    <2>3. CASE i > p + 1
      <3>1. i - 1 \in 1..n /\ To(i - 1) = i
        BY <1>0, <2>3
      <3> QED
        BY <3>1
    <2> QED
      BY <1>0, <2>1, <2>2, <2>3
  <1>3. \A i, j \in 0..n + 1 : To(i) \in Nat /\ (i < j <=> To(i) < To(j))
    BY <1>0
  <1> HIDE DEF To
  <1>4. ASSUME NEW i \in 0..n, NEW j \in 1..n + 1, Quiet(U, To(i), To(j))
        PROVE  Quiet(T, i, j)
    <2> SUFFICES ASSUME NEW l \in i + 1..j - 1
                 PROVE  ~IsInput(T[l])
      BY DEF Quiet
    <2>1. l \in 1..n /\ i < l /\ l < j /\ l \in 0..n + 1 /\ i \in 0..n + 1 /\ j \in 0..n + 1
      OBVIOUS
    <2>2. To(i) < To(l) /\ To(l) < To(j) /\ To(l) \in Nat /\ To(i) \in Nat /\ To(j) \in Nat
      BY <1>3, <2>1
    <2>3. To(l) \in To(i) + 1..To(j) - 1
      BY <2>2
    <2> QED
      BY <1>1, <1>4, <2>1, <2>3 DEF Quiet
  <1>5. ASSUME NEW j \in 1..n + 1, IsInput(U[j])
        PROVE  /\ Quiet(U, 0, j) => U[j].seq = b + 1
               /\ \A i \in 1..j - 1 : IsInput(U[i]) /\ Quiet(U, i, j) => U[j].seq = U[i].seq + 1
    <2>1. PICK l \in 1..n : j = To(l) /\ U[j] = T[l]
      BY <1>1, <1>2, <1>5
    <2>2. l \in 1..n + 1 /\ 0 \in 0..n
      OBVIOUS
    <2>3. Quiet(U, 0, j) => U[j].seq = b + 1
      <3>1. Quiet(U, 0, j) => Quiet(T, 0, l)
        BY <1>0, <1>4, <2>1, <2>2
      <3> QED
        BY <1>5, <2>1, <3>1 DEF Contiguous
    <2>4. ASSUME NEW i \in 1..j - 1, IsInput(U[i]), Quiet(U, i, j)
          PROVE  U[j].seq = U[i].seq + 1
      <3>1. i \in 1..n + 1 /\ i < j
        OBVIOUS
      <3>2. PICK h \in 1..n : i = To(h) /\ U[i] = T[h]
        BY <1>1, <1>2, <2>4, <3>1
      <3>3. h \in 0..n + 1 /\ l \in 0..n + 1 /\ h \in 0..n
        OBVIOUS
      <3>4. h < l
        BY <1>3, <2>1, <3>1, <3>2, <3>3
      <3>5. h \in 1..l - 1
        BY <3>4
      <3>6. Quiet(T, h, l)
        BY <1>4, <2>1, <2>2, <2>4, <3>2, <3>3
      <3> QED
        BY <1>5, <2>1, <2>4, <3>2, <3>5, <3>6 DEF Contiguous
    <2> QED
      BY <2>3, <2>4
  <1>6. ASSUME NEW c, Tip(T, b, c)
        PROVE  Tip(U, b, c)
    <2>1. Len(U) + 1 = n + 2 /\ Len(T) + 1 = n + 1 /\ n + 1 \in 1..n + 1 /\ 0 \in 0..n
      OBVIOUS
    <2>2. Quiet(U, 0, n + 2) => b = c
      <3>1. Quiet(U, 0, n + 2) => Quiet(T, 0, n + 1)
        BY <1>0, <1>4, <2>1
      <3> QED
        BY <1>6, <2>1, <3>1 DEF Tip
    <2>3. ASSUME NEW i \in 1..n + 1, IsInput(U[i]), Quiet(U, i, n + 2)
          PROVE  U[i].seq = c
      <3>1. PICK h \in 1..n : i = To(h) /\ U[i] = T[h]
        BY <1>1, <1>2, <2>3
      <3>2. h \in 0..n
        OBVIOUS
      <3>3. Quiet(T, h, n + 1)
        BY <1>0, <1>4, <2>1, <2>3, <3>1, <3>2
      <3> QED
        BY <1>6, <2>1, <2>3, <3>1, <3>3 DEF Tip
    <2> QED
      BY <2>1, <2>2, <2>3 DEF Tip
  <1>7. Contiguous(U, b)
    BY <1>5 DEF Contiguous
  <1> QED
    BY <1>6, <1>7

----------------------------------------------------------------------------
(* What changes the line.                                                  *)

(* Its first events keep their order when the rest is given up.            *)
LEMMA Cut ==
    ASSUME NEW n \in Nat, NEW m \in Nat, m <= n, NEW Z, NEW W, \A i \in 1..m : W[i] = Z[i],
           NEW P, NoRepress(Z, n, P)
    PROVE  NoRepress(W, m, P)
  <1>1. \A i \in 1..m : i \in 1..n
    OBVIOUS
  <1>2. NoRepress(Z, m, P)
    BY <1>1 DEF NoRepress
  <1> QED
    BY <1>2, Alike

(* A Host that gives keys up needs no release for them.                    *)
LEMMA Fewer ==
    ASSUME NEW n \in Nat, NEW Z, NEW P, NEW Q, Q \subseteq P
    PROVE  /\ \A k : Settled(Z, n, P, k) => Settled(Z, n, Q, k)
           /\ NoRepress(Z, n, P) => NoRepress(Z, n, Q)
           /\ AllLifted(Z, n, P) => AllLifted(Z, n, Q)
  <1>1. \A m, k : Settled(Z, m, P, k) => Settled(Z, m, Q, k)
    BY DEF Settled
  <1> QED
    BY <1>1 DEF NoRepress, AllLifted

LEMMA LiftedSettled ==
    ASSUME NEW n \in Nat, NEW Z, NEW P, AllLifted(Z, n, P)
    PROVE  \A k : Settled(Z, n, P, k)
  BY DEF AllLifted, Settled, Frees, Presses

(* The sender queues an event.                                             *)
LEMMA LineQueues ==
    ASSUME NEW ev \in Seq(Items), NEW w \in Seq(Envelopes), NEW q \in Seq(InputEvents),
           NEW e \in InputEvents,
           NEW n, n = Size(ev, w, q)
    PROVE  /\ n \in Nat /\ Size(ev, w, Append(q, e)) = n + 1
           /\ \A i \in 1..n : Line(ev, w, Append(q, e))[i] = Line(ev, w, q)[i]
           /\ Line(ev, w, Append(q, e))[n + 1] = e
  BY DEF Line, Size

(* The sender cancels its queue, or the channel loses its last envelope.   *)
LEMMA LineCancels ==
    ASSUME NEW ev \in Seq(Items), NEW w \in Seq(Envelopes), NEW q \in Seq(InputEvents),
           NEW n, n = Size(ev, w, q), NEW m, m = Size(ev, w, <<>>)
    PROVE  /\ n \in Nat /\ m \in Nat /\ m <= n
           /\ \A i \in 1..m : Line(ev, w, <<>>)[i] = Line(ev, w, q)[i]
  BY DEF Line, Size

LEMMA FrontShape ==
    ASSUME NEW B, NEW w \in Seq(B), w # <<>>
    PROVE  /\ Front(w) \in Seq(B) /\ Len(Front(w)) = Len(w) - 1
           /\ \A i \in 1..Len(w) - 1 : Front(w)[i] = w[i]
  <1>1. PICK l \in Nat : l = Len(w) - 1 /\ l <= Len(w)
    <2>1. Len(w) - 1 \in Nat /\ Len(w) - 1 <= Len(w)
      OBVIOUS
    <2> QED
      BY <2>1
  <1>2. Front(w) = SubSeq(w, 1, l)
    BY <1>1 DEF Front
  <1>3. \A i \in 1..l : w[i] \in B
    BY <1>1
  <1>4. SubSeq(w, 1, l) = [i \in 1..l |-> w[i]]
    BY <1>1, <1>3
  <1> QED
    BY <1>1, <1>2, <1>3, <1>4

LEMMA LineLoses ==
    ASSUME NEW ev \in Seq(Items), NEW w \in Seq(Envelopes), NEW q \in Seq(InputEvents), w # <<>>,
           NEW n, n = Size(ev, w, q), NEW m, m = Size(ev, Front(w), <<>>)
    PROVE  /\ n \in Nat /\ m \in Nat /\ m <= n
           /\ \A i \in 1..m : Line(ev, Front(w), <<>>)[i] = Line(ev, w, q)[i]
  <1>1. /\ Front(w) \in Seq(Envelopes) /\ Len(Front(w)) = Len(w) - 1
        /\ \A i \in 1..Len(w) - 1 : Front(w)[i] = w[i]
    BY FrontShape
  <1>2. PICK f \in Seq(Envelopes) : f = Front(w)
    BY <1>1
  <1>3. Len(f) = Len(w) - 1 /\ \A i \in 1..Len(w) - 1 : f[i] = w[i]
    BY <1>1, <1>2
  <1>4. /\ Size(ev, f, <<>>) \in Nat /\ Size(ev, f, <<>>) <= n /\ n \in Nat
        /\ \A i \in 1..Size(ev, f, <<>>) : Line(ev, f, <<>>)[i] = Line(ev, w, q)[i]
    <2>1. /\ Size(ev, f, <<>>) = Len(ev) + (Len(w) - 1) /\ n = Len(ev) + Len(w) + Len(q)
          /\ Len(ev) \in Nat /\ Len(w) \in Nat /\ Len(q) \in Nat
      BY <1>3 DEF Size
    <2>2. ASSUME NEW i \in 1..Size(ev, f, <<>>)
          PROVE  Line(ev, f, <<>>)[i] = Line(ev, w, q)[i]
      <3>1. i \in 1..n
        BY <2>1
      <3>2. CASE i <= Len(ev)
        BY <3>1, <3>2 DEF Line
      <3>3. CASE ~(i <= Len(ev))
        <4>1. i - Len(ev) \in 1..Len(w) - 1 /\ i <= Len(ev) + Len(w) /\ i <= Len(ev) + Len(f)
          BY <1>3, <2>1, <3>3
        <4>2. f[i - Len(ev)] = w[i - Len(ev)]
          BY <1>3, <4>1
        <4> QED
          BY <3>1, <3>3, <4>1, <4>2 DEF Line
      <3> QED
        BY <3>2, <3>3
    <2> QED
      BY <2>1, <2>2
  <1> QED
    BY <1>2, <1>4

(* An envelope enters the channel, and leaves it.                          *)
LEMMA LineSends ==
    ASSUME NEW ev \in Seq(Items), NEW w \in Seq(Envelopes), NEW q \in Seq(InputEvents), q # <<>>,
           NEW m \in Envelopes, m.event = Head(q), NEW n, n = Size(ev, w, q)
    PROVE  /\ n \in Nat /\ Size(ev, Append(w, m), Tail(q)) = n
           /\ \A i \in 1..n : Line(ev, Append(w, m), Tail(q))[i] = Line(ev, w, q)[i]
  BY DEF Line, Size

LEMMA LineMoves ==
    ASSUME NEW ev \in Seq(Items), NEW w \in Seq(Envelopes), NEW q \in Seq(InputEvents), w # <<>>,
           NEW n, n = Size(ev, w, q)
    PROVE  /\ n \in Nat /\ Size(Append(ev, Head(w)), Tail(w), q) = n
           /\ \A i \in 1..n : Line(Append(ev, Head(w)), Tail(w), q)[i] = Line(ev, w, q)[i]
  BY DEF Line, Size

(* The Host takes the first event.                                         *)
LEMMA LineTakes ==
    ASSUME NEW ev \in Seq(Items), NEW w \in Seq(Envelopes), NEW q \in Seq(InputEvents), ev # <<>>,
           NEW n, n = Size(Tail(ev), w, q)
    PROVE  /\ n \in Nat /\ Size(ev, w, q) = n + 1
           /\ Line(ev, w, q)[1] = Head(ev).event
           /\ \A i \in 1..n : Line(Tail(ev), w, q)[i] = Line(ev, w, q)[i + 1]
  BY DEF Line, Size

(* A connection event enters, in front of the channel or instead of it.    *)
LEMMA LineEnters ==
    ASSUME NEW ev \in Seq(Items), NEW w \in Seq(Envelopes), NEW q \in Seq(InputEvents), NEW m \in Items,
           NEW n, n = Size(ev, w, q), NEW p, p = Len(ev)
    PROVE  /\ n \in Nat /\ p \in 0..n /\ Size(Append(ev, m), w, q) = n + 1
           /\ Entered(Line(ev, w, q), n, p, m.event, Line(Append(ev, m), w, q))
  BY DEF Line, Size, Entered

LEMMA LineEnds ==
    ASSUME NEW ev \in Seq(Items), NEW w \in Seq(Envelopes), NEW q \in Seq(InputEvents), NEW m \in Items,
           NEW n, n = Size(ev, w, q), NEW p, p = Len(ev)
    PROVE  /\ n \in Nat /\ p \in Nat /\ p <= n /\ Size(Append(ev, m), <<>>, <<>>) = p + 1
           /\ \A i \in 1..p : Line(Append(ev, m), <<>>, <<>>)[i] = Line(ev, w, q)[i]
           /\ Line(Append(ev, m), <<>>, <<>>)[p + 1] = m.event
  BY DEF Line, Size

(* The same for the envelopes and connection events alone.                 *)
LEMMA ChannelMoves ==
    ASSUME NEW ev \in Seq(Items), NEW w \in Seq(Items), w # <<>>
    PROVE  Append(ev, Head(w)) \o Tail(w) = ev \o w
  OBVIOUS

LEMMA ChannelLoses ==
    ASSUME NEW ev \in Seq(Items), NEW w \in Seq(Items), w # <<>>,
           NEW n, n = Len(ev \o w), NEW p, p = Len(ev \o Front(w))
    PROVE  /\ n \in Nat /\ p \in Nat /\ p <= n
           /\ \A i \in 1..p : (ev \o Front(w))[i] = (ev \o w)[i]
  <1>1. PICK f \in Seq(Items) : f = Front(w)
    BY FrontShape
  <1>2. Len(f) = Len(w) - 1 /\ \A i \in 1..Len(w) - 1 : f[i] = w[i]
    BY <1>1, FrontShape
  <1> QED
    BY <1>1, <1>2

----------------------------------------------------------------------------
(* What the sender's operations return.                                    *)

LEMMA EventsTyped ==
    /\ ReleaseAll \in InputEvents /\ CloseControl \in InputEvents
    /\ ReleaseAll.kind = "release" /\ CloseControl.kind = "close"
    /\ \A k \in Keys : Event("down", k) \in InputEvents /\ Event("up", k) \in InputEvents
    /\ \A k : Event("down", k).kind = "down" /\ Event("up", k).kind = "up"
    /\ \A k : Event("down", k).key = k /\ Event("up", k).key = k
    /\ \A e \in InputEvents : e.kind \in {"down", "up", "release", "close"}
    /\ \A e \in InputEvents : e.kind \in {"down", "up"} => e.key \in Keys
    /\ \A e \in InputEvents : e.kind = "release" => e = ReleaseAll
  BY DEF InputEvents, ReleaseAll, CloseControl, Event

LEMMA NothingQueued == \E q \in Seq(InputEvents) : q = <<>>
  <1>1. <<>> \in Seq(InputEvents)
    OBVIOUS
  <1> QED
    BY <1>1

GaveUp(t) == t \in Senders /\ t.failed /\ t.queue = <<>> /\ t.inFlight = Nil

LEMMA AbortedGivesUp ==
    ASSUME NEW s \in Senders
    PROVE  GaveUp(Aborted(s))
  <1>1. PICK q \in Seq(InputEvents) : q = <<>>
    BY NothingQueued
  <1>2. Aborted(s) = [s EXCEPT !.failed = TRUE, !.suspended = TRUE, !.queue = q, !.inFlight = Nil]
    BY <1>1 DEF Aborted
  <1> QED
    BY <1>1, <1>2 DEF GaveUp, Senders

(* An event is queued, or everything is given up.                          *)
LEMMA Queued ==
    ASSUME NEW s \in Senders, ~s.failed, NEW e \in InputEvents, NEW t, t = _sendReliable(s, e)
    PROVE  \/ GaveUp(t)
           \/ /\ t \in Senders /\ ~t.failed
              /\ t.queue = Append(s.queue, e) /\ t.inFlight = s.inFlight /\ t.seq = s.seq
              /\ t.suspended = s.suspended /\ t.closed = s.closed /\ t.releaseSent = s.releaseSent
  <1>1. CASE Pending(s) >= QueueCapacity
    BY <1>1, AbortedGivesUp DEF _sendReliable
  <1>2. CASE ~(Pending(s) >= QueueCapacity)
    <2>1. t = [s EXCEPT !.queue = Append(@, e)]
      BY <1>2 DEF _sendReliable
    <2>2. s.queue \in Seq(InputEvents)
      BY DEF Senders
    <2>3. PICK q \in Seq(InputEvents) : q = Append(s.queue, e)
      <3>1. Append(s.queue, e) \in Seq(InputEvents)
        BY <2>2
      <3> QED
        BY <3>1
    <2>4. t = [s EXCEPT !.queue = q]
      BY <2>1, <2>3
    <2> QED
      BY <2>3, <2>4 DEF Senders
  <1> QED
    BY <1>1, <1>2

(* A release replaces what was queued.                                     *)
Releasing(s, t) ==
    /\ t \in Senders /\ ~t.failed /\ t.releaseSent
    /\ t.queue = <<ReleaseAll>> /\ t.inFlight = s.inFlight /\ t.seq = s.seq
    /\ t.suspended = s.suspended

LEMMA Released ==
    ASSUME NEW s \in Senders, ~s.failed, NEW c \in BOOLEAN,
           NEW t, t = _sendReliable([[_cancelQueuedReliable(s) EXCEPT !.closed = c]
                                        EXCEPT !.releaseSent = TRUE], ReleaseAll)
    PROVE  GaveUp(t) \/ (Releasing(s, t) /\ t.closed = c)
  <1>1. PICK r \in BOOLEAN : r = (s.releaseSent /\ ~Contains(s.queue, ReleaseAll))
    OBVIOUS
  <1>2. PICK u : u = [[_cancelQueuedReliable(s) EXCEPT !.closed = c] EXCEPT !.releaseSent = TRUE]
    OBVIOUS
  <1>0. PICK q \in Seq(InputEvents) : q = <<>>
    BY NothingQueued
  <1>3. _cancelQueuedReliable(s) = [s EXCEPT !.queue = q, !.releaseSent = r]
    BY <1>0, <1>1 DEF _cancelQueuedReliable, Senders
  <1>4. /\ u \in Senders /\ ~u.failed /\ u.queue = <<>> /\ u.inFlight = s.inFlight
        /\ u.seq = s.seq /\ u.suspended = s.suspended /\ u.closed = c /\ u.releaseSent
    BY <1>0, <1>2, <1>3 DEF Senders
  <1>5. t = _sendReliable(u, ReleaseAll)
    BY <1>2
  <1>6. Append(<<>>, ReleaseAll) = <<ReleaseAll>>
    OBVIOUS
  <1> QED
    BY <1>4, <1>5, <1>6, Queued, EventsTyped DEF Releasing

LEMMA ReleasedAll ==
    ASSUME NEW s \in Senders, ~s.failed, ~s.closed
    PROVE  \/ s.releaseSent /\ releaseAll(s) = s
           \/ GaveUp(releaseAll(s))
           \/ Releasing(s, releaseAll(s)) /\ ~releaseAll(s).closed
  <1>1. CASE s.releaseSent
    BY <1>1 DEF releaseAll
  <1>2. CASE ~s.releaseSent
    <2>1. PICK f \in BOOLEAN : f = FALSE
      OBVIOUS
    <2>2. PICK d : d = _cancelQueuedReliable(s)
      OBVIOUS
    <2>3. d = [s EXCEPT !.queue = <<>>, !.releaseSent = @ /\ ~Contains(s.queue, ReleaseAll)]
      BY <2>2 DEF _cancelQueuedReliable
    <2>4. [d EXCEPT !.closed = f] = d
      BY <2>1, <2>3 DEF Senders
    <2>5. releaseAll(s) = _sendReliable([d EXCEPT !.releaseSent = TRUE], ReleaseAll)
      BY <1>2, <2>2 DEF releaseAll
    <2>6. PICK t : t = releaseAll(s)
      OBVIOUS
    <2>7. t = _sendReliable([[_cancelQueuedReliable(s) EXCEPT !.closed = f]
                                EXCEPT !.releaseSent = TRUE], ReleaseAll)
      BY <2>2, <2>4, <2>5, <2>6
    <2>8. GaveUp(t) \/ (Releasing(s, t) /\ t.closed = f)
      BY <2>7, Released
    <2> QED
      BY <2>1, <2>6, <2>8
  <1> QED
    BY <1>1, <1>2

(* A close follows the release that was sent, or releases first.           *)
Closing(s, t) ==
    /\ t \in Senders /\ ~t.failed /\ t.releaseSent
    /\ t.queue = <<CloseControl>> /\ t.seq = s.seq

LEMMA Closes ==
    ASSUME NEW s \in Senders, ~s.failed
    PROVE  \/ GaveUp(_close(s))
           \/ Releasing(s, _close(s))
           \/ s.releaseSent /\ ~Contains(s.queue, ReleaseAll) /\ Closing(s, _close(s))
  <1>1. PICK r \in BOOLEAN : r = (s.releaseSent /\ ~Contains(s.queue, ReleaseAll))
    OBVIOUS
  <1>2. PICK u : u = [_cancelQueuedReliable(s) EXCEPT !.closed = TRUE]
    OBVIOUS
  <1>3. PICK q \in Seq(InputEvents) : q = <<>>
    BY NothingQueued
  <1>4. _cancelQueuedReliable(s) = [s EXCEPT !.queue = q, !.releaseSent = r]
    <2>1. s.releaseSent \in BOOLEAN
      BY DEF Senders
    <2> QED
      BY <1>1, <1>3, <2>1 DEF _cancelQueuedReliable
  <1>5. /\ u \in Senders /\ ~u.failed /\ u.queue = <<>> /\ u.seq = s.seq /\ u.releaseSent = r
    BY <1>2, <1>3, <1>4 DEF Senders
  <1>6. PICK t : t = _close(s)
    OBVIOUS
  <1>7. CASE r
    <2>1. t = _sendReliable(u, CloseControl)
      BY <1>2, <1>5, <1>6, <1>7 DEF _close
    <2>2. Append(<<>>, CloseControl) = <<CloseControl>>
      OBVIOUS
    <2>3. \/ GaveUp(t)
          \/ /\ t \in Senders /\ ~t.failed /\ t.queue = <<CloseControl>> /\ t.seq = u.seq
             /\ t.releaseSent = u.releaseSent
      BY <1>5, <2>1, <2>2, Queued, EventsTyped
    <2>4. GaveUp(t) \/ Closing(s, t)
      BY <1>5, <1>7, <2>3 DEF Closing
    <2> QED
      BY <1>1, <1>6, <1>7, <2>4
  <1>8. CASE ~r
    <2>1. PICK b \in BOOLEAN : b = TRUE
      OBVIOUS
    <2>2. t = _sendReliable([u EXCEPT !.releaseSent = TRUE], ReleaseAll)
      BY <1>2, <1>5, <1>6, <1>8 DEF _close
    <2>3. t = _sendReliable([[_cancelQueuedReliable(s) EXCEPT !.closed = b]
                                EXCEPT !.releaseSent = TRUE], ReleaseAll)
      BY <1>2, <2>1, <2>2
    <2>4. GaveUp(t) \/ Releasing(s, t)
      BY <2>3, Released
    <2> QED
      BY <1>6, <2>4
  <1> QED
    BY <1>7, <1>8

(* A completed send may let the close control follow.                      *)
LEMMA SentShape ==
    ASSUME NEW s \in Senders, ~s.failed
    PROVE  \/ GaveUp(Sent(s))
           \/ s.closed /\ s.queue = <<>> /\ Sent(s).releaseSent = s.releaseSent
              /\ Sent(s) \in Senders /\ ~Sent(s).failed
              /\ Sent(s).queue = <<CloseControl>> /\ Sent(s).seq = s.seq
           \/ Sent(s) = [s EXCEPT !.inFlight = Nil]
  <1>1. PICK d : d = [s EXCEPT !.inFlight = Nil]
    OBVIOUS
  <1>2. /\ d \in Senders /\ ~d.failed /\ d.queue = s.queue /\ d.seq = s.seq
        /\ d.releaseSent = s.releaseSent
    BY <1>1 DEF Senders
  <1>3. PICK t : t = Sent(s)
    OBVIOUS
  <1>4. CASE s.closed /\ s.inFlight = ReleaseAll /\ s.queue = <<>>
    <2>1. t = _sendReliable(d, CloseControl)
      BY <1>1, <1>3, <1>4 DEF Sent
    <2>2. Append(<<>>, CloseControl) = <<CloseControl>>
      OBVIOUS
    <2>3. \/ GaveUp(t)
          \/ /\ t \in Senders /\ ~t.failed /\ t.queue = <<CloseControl>> /\ t.seq = s.seq
             /\ t.releaseSent = s.releaseSent
      BY <1>2, <1>4, <2>1, <2>2, Queued, EventsTyped
    <2> QED
      BY <1>3, <1>4, <2>3
  <1>5. CASE ~(s.closed /\ s.inFlight = ReleaseAll /\ s.queue = <<>>)
    BY <1>5 DEF Sent
  <1> QED
    BY <1>4, <1>5

----------------------------------------------------------------------------
(* What a step of the sender does to the invariant.                        *)

LEMMA WireItems == \A w \in Seq(Envelopes) : w \in Seq(Items)
  BY DEF Items

(* Everything is given up, perhaps with the envelope that was being sent.  *)
LEMMA StepAborts ==
    ASSUME InputInv, GaveUp(sender'), state' = "failed", held' \subseteq Keys,
           focus' \in BOOLEAN, events' = events, host' = host,
           wire' = wire \/ (wire # <<>> /\ wire' = Front(wire))
    PROVE  InputInv'
  <1>1. Types' /\ Types
    BY FrontShape DEF InputInv, Types, GaveUp, States
  <1>2. SenderOK' /\ HostOK'
    BY DEF InputInv, SenderOK, HostOK, GaveUp, Alive
  <1>3. ASSUME host.peer # "Closed"
        PROVE  /\ PressOK(Line(events, wire, sender.queue), Size(events, wire, sender.queue))'
               /\ ChainOK(events \o wire)'
    <2>1. /\ events \in Seq(Items) /\ wire \in Seq(Envelopes)
          /\ wire \in Seq(Items) /\ sender.queue \in Seq(InputEvents)
      BY <1>1, WireItems DEF Types, Senders
    <2>2. /\ NoRepress(Line(events, wire, sender.queue), Size(events, wire, sender.queue), host.pressed)
          /\ Contiguous(events \o wire, host.last + host.dropped)
      BY <1>3 DEF InputInv, PressOK, ChainOK
    <2>3. NoRepress(Line(events, wire', <<>>), Size(events, wire', <<>>), host.pressed)
      <3>1. PICK n, m : n = Size(events, wire, sender.queue) /\ m = Size(events, wire', <<>>)
        OBVIOUS
      <3>2. /\ n \in Nat /\ m \in Nat /\ m <= n
            /\ \A i \in 1..m : Line(events, wire', <<>>)[i] = Line(events, wire, sender.queue)[i]
        <4>1. CASE wire' = wire
          <5>1. m = Size(events, wire, <<>>)
            BY <3>1, <4>1
          <5>2. /\ n \in Nat /\ m \in Nat /\ m <= n
                /\ \A i \in 1..m : Line(events, wire, <<>>)[i] = Line(events, wire, sender.queue)[i]
            BY <2>1, <3>1, <5>1, LineCancels
          <5> QED
            BY <4>1, <5>2
        <4>2. CASE wire # <<>> /\ wire' = Front(wire)
          <5>1. m = Size(events, Front(wire), <<>>)
            BY <3>1, <4>2
          <5>2. /\ n \in Nat /\ m \in Nat /\ m <= n
                /\ \A i \in 1..m :
                     Line(events, Front(wire), <<>>)[i] = Line(events, wire, sender.queue)[i]
            BY <2>1, <3>1, <4>2, <5>1, LineLoses
          <5> QED
            BY <4>2, <5>2
        <4> QED
          BY <4>1, <4>2
      <3> QED
        BY <2>2, <3>1, <3>2, Cut
    <2>4. Contiguous(events \o wire', host.last + host.dropped)
      <3>1. CASE wire' = wire
        BY <2>2, <3>1
      <3>2. CASE wire # <<>> /\ wire' = Front(wire)
        <4>1. PICK n, m : n = Len(events \o wire) /\ m = Len(events \o wire')
          OBVIOUS
        <4>2. m = Len(events \o Front(wire))
          BY <3>2, <4>1
        <4>3. /\ n \in Nat /\ m \in Nat /\ m <= n
              /\ \A i \in 1..m : (events \o Front(wire))[i] = (events \o wire)[i]
          BY <2>1, <3>2, <4>1, <4>2, ChannelLoses
        <4>4. PICK T, U, b : /\ T = events \o wire /\ U = events \o Front(wire)
                             /\ b = host.last + host.dropped
          OBVIOUS
        <4>5. /\ n = Len(T) /\ m = Len(U) /\ Contiguous(T, b)
              /\ \A i \in 1..m : U[i] = T[i]
          BY <2>2, <4>1, <4>2, <4>3, <4>4
        <4>6. Contiguous(U, b)
          BY <4>3, <4>5, CutContiguous
        <4> QED
          BY <3>2, <4>4, <4>6
      <3> QED
        BY <3>1, <3>2
    <2>5. sender'.queue = <<>> /\ sender'.failed
      BY DEF GaveUp
    <2>6. PressOK(Line(events, wire, sender.queue), Size(events, wire, sender.queue))'
      BY <2>3, <2>5 DEF PressOK, Alive
    <2> QED
      BY <2>4, <2>5, <2>6 DEF ChainOK
  <1> QED
    BY <1>1, <1>2, <1>3 DEF InputInv

(* The facts of the invariant that a step of the sender starts from.       *)
LEMMA Before ==
    ASSUME InputInv
    PROVE  /\ Types /\ SenderOK /\ HostOK
           /\ events \in Seq(Items) /\ wire \in Seq(Envelopes) /\ wire \in Seq(Items)
           /\ sender \in Senders /\ sender.queue \in Seq(InputEvents)
           /\ host.last \in Nat /\ host.dropped \in Nat /\ sender.seq \in Nat
           /\ host.last + host.dropped \in Nat
  <1>1. Types /\ SenderOK /\ HostOK
    BY DEF InputInv
  <1>2. /\ events \in Seq(Items) /\ wire \in Seq(Envelopes)
        /\ sender \in Senders /\ host \in Hosts
    BY <1>1 DEF Types
  <1>3. sender.queue \in Seq(InputEvents) /\ sender.seq \in Nat
    BY <1>2 DEF Senders
  <1>4. host.last \in Nat /\ host.dropped \in Nat
    BY <1>2 DEF Hosts
  <1> QED
    BY <1>1, <1>2, <1>3, <1>4, WireItems

(* A release replaces what was queued, or a close follows a release.       *)
LEMMA StepEnds ==
    ASSUME InputInv, ~sender.failed, state \notin {"failed", "gone"},
           sender' \in Senders, ~sender'.failed, sender'.releaseSent, sender'.seq = sender.seq,
           NEW e \in {ReleaseAll, CloseControl}, sender'.queue = <<e>>,
           e = CloseControl => sender.queue = <<>> /\ sender.releaseSent,
           state' \in {"connected", "reconnecting", "closing"}, SenderOK',
           held' \subseteq Keys, focus' \in BOOLEAN,
           events' = events, wire' = wire, host' = host
    PROVE  InputInv'
  <1>1. Types' /\ HostOK'
    BY DEF InputInv, Types, HostOK, States
  <1>2. ASSUME host.peer # "Closed"
        PROVE  /\ PressOK(Line(events, wire, sender.queue), Size(events, wire, sender.queue))'
               /\ ChainOK(events \o wire)'
    <2>1. PICK Z, n, W, m, X :
            /\ Z = Line(events, wire, sender.queue) /\ n = Size(events, wire, sender.queue)
            /\ W = Line(events, wire, <<>>) /\ m = Size(events, wire, <<>>)
            /\ X = Line(events, wire, Append(<<>>, e))
      OBVIOUS
    <2>2. e \in InputEvents /\ <<>> \in Seq(InputEvents)
      BY EventsTyped, NothingQueued
    <2>3. /\ n \in Nat /\ m \in Nat /\ m <= n /\ \A i \in 1..m : W[i] = Z[i]
      BY <2>1, Before, LineCancels
    <2>4. /\ Size(events, wire, Append(<<>>, e)) = m + 1
          /\ (\A i \in 1..m : X[i] = W[i]) /\ X[m + 1] = e
      <3>1. PICK q \in Seq(InputEvents) : q = <<>>
        BY NothingQueued
      <3>2. m = Size(events, wire, q)
        BY <2>1, <3>1
      <3>3. /\ Size(events, wire, Append(q, e)) = m + 1
            /\ \A i \in 1..m : Line(events, wire, Append(q, e))[i] = Line(events, wire, q)[i]
            /\ Line(events, wire, Append(q, e))[m + 1] = e
        BY <2>2, <3>2, Before, LineQueues
      <3> QED
        BY <2>1, <3>1, <3>3
    <2>5. /\ NoRepress(Z, n, host.pressed)
          /\ sender.releaseSent => AllLifted(Z, n, host.pressed)
      BY <1>2, <2>1 DEF InputInv, PressOK
    <2>6. NoRepress(W, m, host.pressed)
      BY <2>3, <2>5, Cut
    <2>7. \A k : ~Presses(X[m + 1], k)
      BY <2>4, EventsTyped DEF Presses
    <2>8. NoRepress(X, m + 1, host.pressed)
      BY <2>3, <2>4, <2>6, <2>7, Longer
    <2>9. AllLifted(X, m + 1, host.pressed)
      <3>1. CASE e = ReleaseAll
        <4>1. Lifts(X[m + 1])
          BY <2>4, <3>1, EventsTyped DEF Lifts
        <4> QED
          BY <2>3, <2>4, <4>1, Longer
      <3>2. CASE e = CloseControl
        <4>1. n = m /\ Z = W
          BY <2>1, <3>2
        <4>2. AllLifted(W, m, host.pressed) /\ X[m + 1].kind # "down"
          BY <2>4, <2>5, <3>2, <4>1, EventsTyped
        <4> QED
          BY <2>3, <2>4, <4>2, Longer
      <3> QED
        BY <3>1, <3>2
    <2>10. sender'.queue = Append(<<>>, e)
      OBVIOUS
    <2>11. /\ X = Line(events', wire', sender'.queue)
           /\ m + 1 = Size(events', wire', sender'.queue)
      <3>1. events' = events /\ wire' = wire
        OBVIOUS
      <3> QED
        BY ONLY <2>1, <2>4, <2>10, <3>1
    <2>12. PressOK(Line(events, wire, sender.queue), Size(events, wire, sender.queue))'
      BY <2>8, <2>9, <2>11 DEF PressOK
    <2>13. ChainOK(events \o wire)'
      BY <1>2 DEF InputInv, ChainOK
    <2> QED
      BY <2>12, <2>13
  <1> QED
    BY <1>1, <1>2 DEF InputInv

(* Nothing is queued or cancelled.                                         *)
LEMMA StepIdles ==
    ASSUME InputInv, ~sender.failed, state \notin {"failed", "gone"},
           sender' \in Senders, ~sender'.failed, sender'.seq = sender.seq,
           sender'.queue = sender.queue, sender'.releaseSent = sender.releaseSent,
           state' \in {"connected", "reconnecting", "closing"}, SenderOK',
           sender.releaseSent \/ (held' = held /\ (Alive' => Alive)),
           held' \subseteq Keys, focus' \in BOOLEAN,
           events' = events, wire' = wire, host' = host
    PROVE  InputInv'
  <1>1. Types' /\ HostOK'
    BY DEF InputInv, Types, HostOK, States
  <1>2. ASSUME host.peer # "Closed"
        PROVE  /\ PressOK(Line(events, wire, sender.queue), Size(events, wire, sender.queue))'
               /\ ChainOK(events \o wire)'
    BY <1>2 DEF InputInv, ChainOK, PressOK
  <1> QED
    BY <1>1, <1>2 DEF InputInv

(* A key is pressed or released: a pressed one was settled before.         *)
LEMMA StepQueues ==
    ASSUME InputInv, Alive, ~sender.failed, NEW k \in Keys,
           NEW e, e = Event(IF k \in held THEN "up" ELSE "down", k),
           sender' \in Senders, ~sender'.failed, ~sender'.releaseSent, sender'.seq = sender.seq,
           sender'.queue = Append(sender.queue, e), state' = state, SenderOK',
           held' = IF k \in held THEN held \ {k} ELSE held \cup {k}, focus' = focus,
           events' = events, wire' = wire, host' = host
    PROVE  InputInv'
  <1>1. Types' /\ HostOK'
    BY DEF InputInv, Types, HostOK
  <1>2. ASSUME host.peer # "Closed"
        PROVE  /\ PressOK(Line(events, wire, sender.queue), Size(events, wire, sender.queue))'
               /\ ChainOK(events \o wire)'
    <2>1. PICK Z, n, X, P :
            /\ Z = Line(events, wire, sender.queue) /\ n = Size(events, wire, sender.queue)
            /\ X = Line(events, wire, Append(sender.queue, e)) /\ P = host.pressed
      OBVIOUS
    <2>2. /\ e \in InputEvents /\ e.key = k
          /\ k \in held => e.kind = "up"
          /\ k \notin held => e.kind = "down"
      BY EventsTyped
    <2>3. /\ n \in Nat /\ Size(events, wire, Append(sender.queue, e)) = n + 1
          /\ (\A i \in 1..n : X[i] = Z[i]) /\ X[n + 1] = e
      BY <2>1, <2>2, Before, LineQueues
    <2>4. /\ NoRepress(Z, n, P)
          /\ ~sender.releaseSent => \A l \in Keys : Settled(Z, n, P, l) \/ l \in held
          /\ sender.releaseSent => AllLifted(Z, n, P)
      BY <1>2, <2>1 DEF InputInv, PressOK, Alive
    <2>5. \A l \in Keys : Settled(Z, n, P, l) \/ l \in held
      BY <2>3, <2>4, LiftedSettled
    <2>6. \A l \in Keys : Presses(X[n + 1], l) => Settled(Z, n, P, l)
      BY <2>2, <2>3, <2>5 DEF Presses
    <2>7. NoRepress(X, n + 1, P)
      BY <2>3, <2>4, <2>6, Longer
    <2>8. ASSUME NEW l \in Keys, l \notin held'
          PROVE  Settled(X, n + 1, P, l)
      <3>1. CASE l = k
        <4>1. Frees(X[n + 1], l)
          BY <2>2, <2>3, <2>8, <3>1 DEF Frees
        <4> QED
          BY <2>3, <4>1, Longer
      <3>2. CASE l # k
        <4>1. Settled(Z, n, P, l) /\ ~Presses(X[n + 1], l)
          BY <2>2, <2>3, <2>5, <2>8, <3>2 DEF Presses
        <4> QED
          BY <2>3, <4>1, Longer
      <3> QED
        BY <3>1, <3>2
    <2>9. /\ X = Line(events', wire', sender'.queue)
          /\ n + 1 = Size(events', wire', sender'.queue) /\ P = host'.pressed
      <3>1. events' = events /\ wire' = wire /\ sender'.queue = Append(sender.queue, e) /\ host' = host
        OBVIOUS
      <3> QED
        BY ONLY <2>1, <2>3, <3>1
    <2>10. PressOK(Line(events, wire, sender.queue), Size(events, wire, sender.queue))'
      BY <2>7, <2>8, <2>9 DEF PressOK, Alive
    <2>11. ChainOK(events \o wire)'
      BY <1>2 DEF InputInv, ChainOK, Alive
    <2> QED
      BY <2>10, <2>11
  <1> QED
    BY <1>1, <1>2 DEF InputInv

----------------------------------------------------------------------------
(* The invariant survives the Controller's steps.                          *)

LEMMA UserInputKeeps ==
    ASSUME InputInv, NEW k \in Keys, UserInput(k)
    PROVE  InputInv'
  <1>1. /\ Alive /\ ~sender.failed /\ ~sender.closed /\ sender \in Senders /\ SenderOK
        /\ held' \subseteq Keys /\ focus' = focus /\ focus' \in BOOLEAN
        /\ events' = events /\ wire' = wire /\ host' = host
    BY DEF InputInv, SenderOK, Types, UserInput, Alive, hostVars
  <1>2. CASE focus /\ state = "connected"
    <2>1. PICK e, s : /\ e = Event(IF k \in held THEN "up" ELSE "down", k)
                      /\ s = [sender EXCEPT !.releaseSent = FALSE]
      OBVIOUS
    <2>2. sender' = _sendReliable(s, e) /\ state' = IF sender'.failed THEN "failed" ELSE state
      BY <1>2, <2>1 DEF UserInput, After
    <2>3. /\ s \in Senders /\ ~s.failed /\ ~s.releaseSent /\ s.queue = sender.queue
          /\ s.closed = sender.closed /\ s.suspended = sender.suspended /\ s.seq = sender.seq
      BY <1>1, <2>1 DEF Senders
    <2>4. e \in InputEvents
      BY <2>1, EventsTyped
    <2>5. \/ GaveUp(sender')
          \/ /\ sender' \in Senders /\ ~sender'.failed
             /\ sender'.queue = Append(s.queue, e) /\ sender'.seq = s.seq
             /\ sender'.suspended = s.suspended /\ sender'.closed = s.closed
             /\ sender'.releaseSent = s.releaseSent
      BY <2>2, <2>3, <2>4, Queued
    <2>6. CASE GaveUp(sender')
      <3>1. state' = "failed"
        BY <2>2, <2>6 DEF GaveUp
      <3> QED
        BY <1>1, <2>6, <3>1, StepAborts
    <2>7. CASE ~GaveUp(sender')
      <3>1. /\ sender' \in Senders /\ ~sender'.failed /\ ~sender'.releaseSent
            /\ sender'.queue = Append(sender.queue, e) /\ sender'.seq = sender.seq
            /\ sender'.suspended = sender.suspended /\ ~sender'.closed /\ state' = state
        BY <1>1, <2>2, <2>3, <2>5, <2>7
      <3>2. SenderOK'
        BY <1>1, <1>2, <3>1 DEF SenderOK, Alive
      <3>3. held' = IF k \in held THEN held \ {k} ELSE held \cup {k}
        BY DEF UserInput
      <3> QED
        BY <1>1, <2>1, <3>1, <3>2, <3>3, StepQueues
    <2> QED
      BY <2>6, <2>7
  <1>3. CASE ~(focus /\ state = "connected")
    <2>1. state' = state /\ sender' = sender
      BY <1>3 DEF UserInput
    <2>2. sender.releaseSent
      BY <1>1, <1>3 DEF SenderOK, Alive, InputInv, Types
    <2>3. SenderOK'
      BY <1>1, <2>1 DEF SenderOK, Alive
    <2>4. state \in {"connected", "reconnecting"}
      BY DEF UserInput
    <2> QED
      BY <1>1, <2>1, <2>2, <2>3, <2>4, StepIdles
  <1> QED
    BY <1>2, <1>3

(* Everything is released: by a lost focus, or when the sender suspends.   *)
LEMMA ReleaseKeeps ==
    ASSUME InputInv, Alive, NEW s \in Senders, ~s.failed, ~s.closed, s.seq = sender.seq,
           s.queue = sender.queue, s.releaseSent = sender.releaseSent,
           sender' = releaseAll(s), NEW next \in {"connected", "reconnecting"},
           s.suspended <=> next = "reconnecting",
           state' = IF sender'.failed THEN "failed" ELSE next,
           held' = held, focus' \in BOOLEAN, events' = events, wire' = wire, host' = host
    PROVE  InputInv'
  <1>1. /\ ~sender.failed /\ ~sender.closed /\ sender \in Senders /\ SenderOK
        /\ held' \subseteq Keys /\ state \notin {"failed", "gone"}
    BY DEF InputInv, SenderOK, Types, Alive
  <1>2. \/ s.releaseSent /\ sender' = s
        \/ GaveUp(sender')
        \/ Releasing(s, sender') /\ ~sender'.closed
    BY ReleasedAll
  <1>3. CASE s.releaseSent /\ sender' = s
    <2>1. state' = next /\ sender.releaseSent
      BY <1>3
    <2>2. SenderOK'
      BY <1>1, <1>3, <2>1 DEF SenderOK, Alive
    <2> QED
      BY <1>1, <1>3, <2>1, <2>2, StepIdles DEF Alive
  <1>4. CASE GaveUp(sender')
    <2>1. state' = "failed"
      BY <1>4 DEF GaveUp
    <2> QED
      BY <1>1, <1>4, <2>1, StepAborts
  <1>5. CASE Releasing(s, sender') /\ ~sender'.closed
    <2>1. /\ sender' \in Senders /\ ~sender'.failed /\ sender'.releaseSent
          /\ sender'.queue = <<ReleaseAll>> /\ sender'.seq = sender.seq
          /\ sender'.suspended = s.suspended /\ ~sender'.closed /\ state' = next
      BY <1>5 DEF Releasing
    <2>2. SenderOK'
      BY <2>1 DEF SenderOK, Alive
    <2>3. PICK e \in {ReleaseAll, CloseControl} : e = ReleaseAll
      OBVIOUS
    <2>4. e # CloseControl
      BY <2>3, EventsTyped
    <2> QED
      BY <1>1, <2>1, <2>2, <2>3, <2>4, StepEnds
  <1> QED
    BY <1>2, <1>3, <1>4, <1>5

LEMMA FocusKeeps ==
    ASSUME InputInv, _onFocusChanged
    PROVE  InputInv'
  <1>1. /\ Alive /\ ~sender.failed /\ ~sender.closed /\ sender \in Senders /\ SenderOK
        /\ sender.suspended <=> state = "reconnecting"
        /\ held' = held /\ held' \subseteq Keys /\ focus \in BOOLEAN /\ focus' = ~focus
        /\ events' = events /\ wire' = wire /\ host' = host
        /\ state \in {"connected", "reconnecting"}
    BY DEF InputInv, SenderOK, Types, _onFocusChanged, Alive, hostVars
  <1>2. focus' \in BOOLEAN
    BY <1>1
  <1>3. CASE focus
    <2>1. /\ sender' = releaseAll(sender)
          /\ state' = IF sender'.failed THEN "failed" ELSE state
      BY <1>3 DEF _onFocusChanged, After
    <2> QED
      BY <1>1, <1>2, <2>1, ReleaseKeeps
  <1>4. CASE ~focus
    <2>1. state' = state /\ sender' = sender /\ sender.releaseSent
      BY <1>1, <1>4 DEF _onFocusChanged, SenderOK
    <2>2. SenderOK'
      BY <1>1, <2>1 DEF SenderOK, Alive
    <2> QED
      BY <1>1, <1>2, <2>1, <2>2, StepIdles
  <1> QED
    BY <1>3, <1>4

LEMMA SuspendKeeps ==
    ASSUME InputInv, _handleRecoverableFailure
    PROVE  InputInv'
  <1>1. /\ Alive /\ ~sender.failed /\ ~sender.closed /\ ~sender.suspended /\ sender \in Senders
        /\ held' = held /\ focus' \in BOOLEAN
        /\ events' = events /\ wire' = wire /\ host' = host
    BY DEF InputInv, SenderOK, Types, _handleRecoverableFailure, Alive, hostVars
  <1>2. PICK s : s = [sender EXCEPT !.suspended = TRUE]
    OBVIOUS
  <1>3. /\ s \in Senders /\ ~s.failed /\ ~s.closed /\ s.suspended /\ s.queue = sender.queue
        /\ s.seq = sender.seq /\ s.releaseSent = sender.releaseSent
    BY <1>1, <1>2 DEF Senders
  <1>4. /\ sender' = releaseAll(s)
        /\ state' = IF sender'.failed THEN "failed" ELSE "reconnecting"
    BY <1>1, <1>2 DEF _handleRecoverableFailure, After, suspend
  <1>5. PICK next \in {"connected", "reconnecting"} : next = "reconnecting"
    OBVIOUS
  <1> QED
    BY <1>1, <1>3, <1>4, <1>5, ReleaseKeeps

LEMMA ResumeKeeps ==
    ASSUME InputInv, _completeReconnect
    PROVE  InputInv'
  <1>1. /\ Alive /\ ~sender.failed /\ ~sender.closed /\ sender.releaseSent /\ sender \in Senders
        /\ SenderOK /\ held' = held /\ held' \subseteq Keys /\ focus' = focus /\ focus' \in BOOLEAN
        /\ events' = events /\ wire' = wire /\ host' = host
        /\ state = "reconnecting" /\ sender' = resume(sender)
        /\ state' = IF sender'.failed THEN "failed" ELSE "connected"
    BY DEF InputInv, SenderOK, Types, _completeReconnect, After, Alive, hostVars
  <1>2. /\ sender' \in Senders /\ ~sender'.failed /\ ~sender'.closed /\ sender'.releaseSent
        /\ ~sender'.suspended /\ sender'.queue = sender.queue /\ sender'.seq = sender.seq
    BY <1>1 DEF resume, Senders
  <1>3. state' = "connected"
    BY <1>1, <1>2
  <1>4. SenderOK'
    BY <1>1, <1>2, <1>3 DEF SenderOK, Alive
  <1> QED
    BY <1>1, <1>2, <1>3, <1>4, StepIdles

LEMMA CloseKeeps ==
    ASSUME InputInv, _performResourceClose
    PROVE  InputInv'
  <1>1. /\ Alive /\ ~sender.failed /\ sender \in Senders /\ SenderOK
        /\ held' = held /\ held' \subseteq Keys /\ focus' \in BOOLEAN
        /\ events' = events /\ wire' = wire /\ host' = host
        /\ sender' = _close(sender) /\ state \notin {"failed", "gone"}
        /\ state' = IF sender'.failed THEN "failed" ELSE "closing"
    BY DEF InputInv, SenderOK, Types, _performResourceClose, After, Alive, hostVars
  <1>2. \/ GaveUp(sender')
        \/ Releasing(sender, sender')
        \/ sender.releaseSent /\ ~Contains(sender.queue, ReleaseAll) /\ Closing(sender, sender')
    BY <1>1, Closes
  <1>3. CASE GaveUp(sender')
    <2>1. state' = "failed"
      BY <1>1, <1>3 DEF GaveUp
    <2> QED
      BY <1>1, <1>3, <2>1, StepAborts
  <1>4. CASE Releasing(sender, sender')
    <2>1. /\ sender' \in Senders /\ ~sender'.failed /\ sender'.releaseSent
          /\ sender'.queue = <<ReleaseAll>> /\ sender'.seq = sender.seq /\ state' = "closing"
      BY <1>1, <1>4 DEF Releasing
    <2>2. SenderOK'
      BY <2>1 DEF SenderOK, Alive
    <2>3. PICK e \in {ReleaseAll, CloseControl} : e = ReleaseAll
      OBVIOUS
    <2>4. e # CloseControl
      BY <2>3, EventsTyped
    <2> QED
      BY <1>1, <2>1, <2>2, <2>3, <2>4, StepEnds
  <1>5. CASE sender.releaseSent /\ ~Contains(sender.queue, ReleaseAll) /\ Closing(sender, sender')
    <2>1. /\ sender' \in Senders /\ ~sender'.failed /\ sender'.releaseSent
          /\ sender'.queue = <<CloseControl>> /\ sender'.seq = sender.seq /\ state' = "closing"
      BY <1>1, <1>5 DEF Closing
    <2>2. SenderOK'
      BY <2>1 DEF SenderOK, Alive
    <2>3. sender.queue = <<>>
      <3>1. sender.queue = <<>> \/ sender.queue = <<ReleaseAll>>
        BY <1>1, <1>5 DEF SenderOK
      <3>2. Contains(<<ReleaseAll>>, ReleaseAll)
        BY DEF Contains
      <3> QED
        BY <1>5, <3>1, <3>2
    <2>4. PICK e \in {ReleaseAll, CloseControl} : e = CloseControl
      OBVIOUS
    <2> QED
      BY <1>1, <1>5, <2>1, <2>2, <2>3, <2>4, StepEnds
  <1> QED
    BY <1>2, <1>3, <1>4, <1>5

LEMMA SendCompletesKeeps ==
    ASSUME InputInv, SendCompletes
    PROVE  InputInv'
  <1>1. /\ ~sender.failed /\ sender \in Senders /\ SenderOK
        /\ held' = held /\ held' \subseteq Keys /\ focus' = focus /\ focus' \in BOOLEAN
        /\ events' = events /\ wire' = wire /\ host' = host
        /\ sender' = Sent(sender) /\ state \in {"connected", "reconnecting", "closing"}
        /\ state' = IF sender'.failed THEN "failed" ELSE state
    BY DEF InputInv, SenderOK, Types, States, SendCompletes, After, hostVars
  <1>2. \/ GaveUp(sender')
        \/ /\ sender.closed /\ sender.queue = <<>> /\ sender'.releaseSent = sender.releaseSent
           /\ sender' \in Senders /\ ~sender'.failed
           /\ sender'.queue = <<CloseControl>> /\ sender'.seq = sender.seq
        \/ sender' = [sender EXCEPT !.inFlight = Nil]
    BY <1>1, SentShape
  <1>3. CASE GaveUp(sender')
    <2>1. state' = "failed"
      BY <1>1, <1>3 DEF GaveUp
    <2> QED
      BY <1>1, <1>3, <2>1, StepAborts
  <1>4. CASE /\ sender.closed /\ sender.queue = <<>> /\ sender'.releaseSent = sender.releaseSent
             /\ sender' \in Senders /\ ~sender'.failed
             /\ sender'.queue = <<CloseControl>> /\ sender'.seq = sender.seq
    <2>1. state = "closing" /\ state' = "closing" /\ sender.releaseSent
      BY <1>1, <1>4 DEF SenderOK, Alive
    <2>2. SenderOK'
      BY <1>4, <2>1 DEF SenderOK, Alive
    <2>3. PICK e \in {ReleaseAll, CloseControl} : e = CloseControl
      OBVIOUS
    <2> QED
      BY <1>1, <1>4, <2>1, <2>2, <2>3, StepEnds
  <1>5. CASE sender' = [sender EXCEPT !.inFlight = Nil]
    <2>1. /\ sender' \in Senders /\ ~sender'.failed /\ sender'.queue = sender.queue
          /\ sender'.seq = sender.seq /\ sender'.releaseSent = sender.releaseSent
          /\ sender'.closed = sender.closed /\ sender'.suspended = sender.suspended
      BY <1>1, <1>5 DEF Senders
    <2>2. state' = state
      BY <1>1, <2>1
    <2>3. SenderOK'
      BY <1>1, <2>1, <2>2 DEF SenderOK, Alive
    <2>4. Alive' => Alive
      BY <2>2 DEF Alive
    <2> QED
      BY <1>1, <2>1, <2>2, <2>3, <2>4, StepIdles
  <1> QED
    BY <1>2, <1>3, <1>4, <1>5

LEMMA SendFailsKeeps ==
    ASSUME InputInv, SendFails
    PROVE  InputInv'
  <1>1. /\ sender \in Senders
        /\ held' \subseteq Keys /\ focus' \in BOOLEAN
        /\ events' = events /\ host' = host
        /\ wire' = wire \/ (wire # <<>> /\ wire' = Front(wire))
        /\ sender' = Aborted(sender)
        /\ state' = IF sender'.failed THEN "failed" ELSE state
    BY DEF InputInv, Types, SendFails, After, hostVars
  <1>2. GaveUp(sender')
    BY <1>1, AbortedGivesUp
  <1>3. state' = "failed"
    BY <1>1, <1>2 DEF GaveUp
  <1> QED
    BY <1>1, <1>2, <1>3, StepAborts

LEMMA DispatchKeeps ==
    ASSUME InputInv, _dispatchReliable
    PROVE  InputInv'
  <1>1. PICK m : m = [seq |-> sender.seq + 1, event |-> Head(sender.queue)]
    OBVIOUS
  <1>2. /\ ~sender.failed /\ sender.queue # <<>>
        /\ sender' = [sender EXCEPT !.queue = Tail(@), !.inFlight = Head(sender.queue),
                                    !.seq = sender.seq + 1]
        /\ wire' = Append(wire, m) /\ state' = state /\ held' = held /\ focus' = focus
        /\ events' = events /\ host' = host
    BY <1>1 DEF _dispatchReliable, hostVars
  <1>3. PICK q \in Seq(InputEvents), e \in InputEvents, n \in Nat \ {0} :
          q = Tail(sender.queue) /\ e = Head(sender.queue) /\ n = sender.seq + 1
    <2>1. Tail(sender.queue) \in Seq(InputEvents) /\ Head(sender.queue) \in InputEvents
      BY <1>2, Before
    <2>2. sender.seq + 1 \in Nat \ {0}
      BY Before
    <2> QED
      BY <2>1, <2>2
  <1>4. /\ sender' \in Senders /\ sender'.queue = q /\ sender'.seq = n
        /\ sender'.failed = sender.failed /\ sender'.closed = sender.closed
        /\ sender'.suspended = sender.suspended /\ sender'.releaseSent = sender.releaseSent
    <2>1. sender' = [sender EXCEPT !.queue = q, !.inFlight = e, !.seq = n]
      BY <1>2, <1>3
    <2>2. sender \in Senders /\ n \in Nat
      BY Before
    <2> QED
      BY <2>1, <2>2 DEF Senders
  <1>5. m \in Envelopes /\ m \in Items /\ m.seq = n /\ m.event = Head(sender.queue) /\ IsInput(m)
    BY <1>1, <1>3 DEF Envelopes, Items, IsInput
  <1>6. wire' \in Seq(Envelopes)
    BY <1>2, <1>5, Before
  <1>7. Types' /\ HostOK'
    BY <1>2, <1>4, <1>6 DEF InputInv, Types, HostOK
  <1>8. SenderOK'
    <2>1. Tail(<<ReleaseAll>>) = <<>>
      OBVIOUS
    <2>2. state \notin {"failed", "gone"}
      BY <1>2, Before DEF SenderOK
    <2> QED
      BY <1>2, <1>3, <1>4, <2>1, <2>2, Before DEF SenderOK, Alive
  <1>9. ASSUME host.peer # "Closed"
        PROVE  /\ PressOK(Line(events, wire, sender.queue), Size(events, wire, sender.queue))'
               /\ ChainOK(events \o wire)'
    <2>1. PICK Z, l, W :
            /\ Z = Line(events, wire, sender.queue) /\ l = Size(events, wire, sender.queue)
            /\ W = Line(events, Append(wire, m), Tail(sender.queue))
      OBVIOUS
    <2>2. /\ l \in Nat /\ Size(events, Append(wire, m), Tail(sender.queue)) = l
          /\ \A i \in 1..l : W[i] = Z[i]
      BY <1>2, <1>5, <2>1, Before, LineSends
    <2>3. /\ W = Line(events', wire', sender'.queue) /\ l = Size(events', wire', sender'.queue)
          /\ host'.pressed = host.pressed
      BY ONLY <1>2, <1>3, <1>4, <2>1, <2>2
    <2>4. /\ \A k : Settled(Z, l, host.pressed, k) => Settled(W, l, host.pressed, k)
          /\ NoRepress(Z, l, host.pressed) => NoRepress(W, l, host.pressed)
          /\ AllLifted(Z, l, host.pressed) => AllLifted(W, l, host.pressed)
      BY <2>2, Alike
    <2>5. PressOK(Z, l)
      BY <1>9, <2>1 DEF InputInv
    <2>6. PressOK(Line(events, wire, sender.queue), Size(events, wire, sender.queue))'
      BY <1>2, <1>4, <2>3, <2>4, <2>5 DEF PressOK, Alive
    <2>7. PICK T, U, b, o, c : /\ T = events \o wire /\ U = events \o Append(wire, m)
                               /\ b = host.last + host.dropped /\ o = Len(events \o wire)
                               /\ c = sender.seq
      OBVIOUS
    <2>8. /\ o \in Nat /\ o = Len(T) /\ o + 1 = Len(U)
          /\ (\A i \in 1..o : U[i] = T[i]) /\ U[o + 1] = m
      <3>1. PICK w \in Seq(Items), ev \in Seq(Items) : w = wire /\ ev = events
        BY Before
      <3>2. T = ev \o w /\ U = ev \o Append(w, m) /\ o = Len(ev \o w) /\ m \in Items
        BY <1>5, <2>7, <3>1
      <3>3. /\ o \in Nat /\ Len(ev \o Append(w, m)) = o + 1
            /\ \A i \in 1..o : (ev \o Append(w, m))[i] = (ev \o w)[i]
            /\ (ev \o Append(w, m))[o + 1] = m
        BY ONLY <3>2, w \in Seq(Items), ev \in Seq(Items)
      <3> QED
        BY ONLY <3>2, <3>3
    <2>9. Contiguous(T, b) /\ Tip(T, b, c) /\ U[o + 1].seq = c + 1 /\ IsInput(U[o + 1])
      <3>1. state # "gone"
        BY <1>2, Before DEF SenderOK
      <3> QED
        BY <1>2, <1>3, <1>5, <1>9, <2>7, <2>8, <3>1 DEF InputInv, ChainOK
    <2>10. Contiguous(U, b) /\ Tip(U, b, c + 1)
      BY <2>8, <2>9, AddContiguous
    <2>11. /\ U = events' \o wire' /\ b = host'.last + host'.dropped /\ c + 1 = sender'.seq
      BY ONLY <1>2, <1>3, <1>4, <2>7
    <2> QED
      BY <2>6, <2>10, <2>11 DEF ChainOK
  <1> QED
    BY <1>2, <1>7, <1>8, <1>9 DEF InputInv

----------------------------------------------------------------------------
(* The invariant survives the steps of the channel and the native peers.   *)

LEMMA DeliverKeeps ==
    ASSUME InputInv, Deliver
    PROVE  InputInv'
  <1>1. /\ wire # <<>> /\ events' = Append(events, Head(wire)) /\ wire' = Tail(wire)
        /\ state' = state /\ sender' = sender /\ held' = held /\ focus' = focus /\ host' = host
    BY DEF Deliver, controllerVars, hostVars
  <1>2. /\ wire' \in Seq(Envelopes) /\ Head(wire) \in Items
    BY <1>1, Before DEF Items
  <1>3. events' \in Seq(Items)
    BY <1>1, <1>2, Before
  <1>4. Types' /\ HostOK' /\ SenderOK'
    BY <1>1, <1>2, <1>3 DEF InputInv, Types, HostOK, SenderOK, Alive
  <1>5. ASSUME host.peer # "Closed"
        PROVE  /\ PressOK(Line(events, wire, sender.queue), Size(events, wire, sender.queue))'
               /\ ChainOK(events \o wire)'
    <2>1. PICK Z, n, W :
            /\ Z = Line(events, wire, sender.queue) /\ n = Size(events, wire, sender.queue)
            /\ W = Line(Append(events, Head(wire)), Tail(wire), sender.queue)
      OBVIOUS
    <2>2. /\ n \in Nat /\ Size(Append(events, Head(wire)), Tail(wire), sender.queue) = n
          /\ \A i \in 1..n : W[i] = Z[i]
      BY <1>1, <2>1, Before, LineMoves
    <2>3. /\ W = Line(events', wire', sender'.queue) /\ n = Size(events', wire', sender'.queue)
          /\ host'.pressed = host.pressed
      BY ONLY <1>1, <2>1, <2>2
    <2>4. /\ \A k : Settled(Z, n, host.pressed, k) => Settled(W, n, host.pressed, k)
          /\ NoRepress(Z, n, host.pressed) => NoRepress(W, n, host.pressed)
          /\ AllLifted(Z, n, host.pressed) => AllLifted(W, n, host.pressed)
      BY <2>2, Alike
    <2>5. PressOK(Z, n)
      BY <1>5, <2>1 DEF InputInv
    <2>6. PressOK(Line(events, wire, sender.queue), Size(events, wire, sender.queue))'
      BY <1>1, <2>3, <2>4, <2>5 DEF PressOK, Alive
    <2>7. events' \o wire' = events \o wire
      <3>1. PICK w \in Seq(Items), ev \in Seq(Items) : w = wire /\ ev = events
        BY Before
      <3>2. Append(ev, Head(w)) \o Tail(w) = ev \o w
        BY <1>1, <3>1, ChannelMoves
      <3> QED
        BY <1>1, <3>1, <3>2
    <2>8. ChainOK(events \o wire)
      BY <1>5 DEF InputInv
    <2> QED
      BY <1>1, <2>6, <2>7, <2>8 DEF ChainOK
  <1> QED
    BY <1>1, <1>4, <1>5 DEF InputInv

LEMMA SignalTyped ==
    /\ \A kind \in {"connected", "lost"} :
         /\ Signal(kind) \in Items /\ ~IsInput(Signal(kind)) /\ Signal(kind).event.kind = kind
    /\ \A m \in Items : m.event.kind \in {"connected", "lost"} => ~IsInput(m)
    /\ \A m \in Items : m.event.kind \notin {"connected", "lost"} =>
         m.seq \in Nat /\ m.event \in InputEvents /\ IsInput(m)
  <1>1. \A kind \in {"connected", "lost"} :
          /\ Signal(kind) \in Items /\ ~IsInput(Signal(kind)) /\ Signal(kind).event.kind = kind
    BY DEF Signal, Event, Items, Signals, IsInput
  <1>2. ASSUME NEW m \in Envelopes
        PROVE  /\ m.seq \in Nat /\ m.event \in InputEvents /\ IsInput(m)
               /\ m.event.kind \notin {"connected", "lost"}
    <2>1. m.seq \in Nat \ {0} /\ m.event \in InputEvents
      BY DEF Envelopes
    <2> QED
      BY <2>1, EventsTyped DEF IsInput
  <1>3. ASSUME NEW m \in Signals
        PROVE  ~IsInput(m) /\ m.event.kind \in {"connected", "lost"}
    BY <1>1 DEF Signals
  <1> QED
    BY <1>1, <1>2, <1>3 DEF Items

LEMMA NativeSignalKeeps ==
    ASSUME InputInv, NativeSignal
    PROVE  InputInv'
  <1>1. PICK kind \in {"connected", "lost"} : events' = Append(events, Signal(kind))
    BY DEF NativeSignal
  <1>2. /\ wire' = wire /\ state' = state /\ sender' = sender /\ held' = held /\ focus' = focus
        /\ host' = host
    BY DEF NativeSignal, controllerVars, hostVars
  <1>3. PICK m \in Items : m = Signal(kind) /\ ~IsInput(m) /\ m.event.kind # "down"
    BY SignalTyped
  <1>4. events' = Append(events, m) /\ events' \in Seq(Items)
    BY <1>1, <1>3, Before
  <1>5. Types' /\ HostOK' /\ SenderOK'
    BY <1>2, <1>4 DEF InputInv, Types, HostOK, SenderOK, Alive
  <1>6. ASSUME host.peer # "Closed"
        PROVE  /\ PressOK(Line(events, wire, sender.queue), Size(events, wire, sender.queue))'
               /\ ChainOK(events \o wire)'
    <2>1. PICK Z, n, W, p :
            /\ Z = Line(events, wire, sender.queue) /\ n = Size(events, wire, sender.queue)
            /\ W = Line(Append(events, m), wire, sender.queue) /\ p = Len(events)
      OBVIOUS
    <2>2. /\ n \in Nat /\ p \in 0..n /\ Size(Append(events, m), wire, sender.queue) = n + 1
          /\ Entered(Z, n, p, m.event, W)
      BY <2>1, Before, LineEnters
    <2>3. /\ W = Line(events', wire', sender'.queue) /\ n + 1 = Size(events', wire', sender'.queue)
          /\ host'.pressed = host.pressed
      BY ONLY <1>2, <1>4, <2>1, <2>2
    <2>4. /\ \A k : Settled(Z, n, host.pressed, k) => Settled(W, n + 1, host.pressed, k)
          /\ NoRepress(Z, n, host.pressed) => NoRepress(W, n + 1, host.pressed)
          /\ AllLifted(Z, n, host.pressed) => AllLifted(W, n + 1, host.pressed)
      BY <1>3, <2>2, Inserted
    <2>5. PressOK(Z, n)
      BY <1>6, <2>1 DEF InputInv
    <2>6. PressOK(Line(events, wire, sender.queue), Size(events, wire, sender.queue))'
      BY <1>2, <2>3, <2>4, <2>5 DEF PressOK, Alive
    <2>7. PICK T, U, b, o : /\ T = events \o wire /\ U = Append(events, m) \o wire
                            /\ b = host.last + host.dropped /\ o = Len(events \o wire)
      OBVIOUS
    <2>8. /\ o \in Nat /\ o = Len(T) /\ o + 1 = Len(U) /\ p \in 0..o /\ Entered(T, o, p, m, U)
      <3>1. PICK w \in Seq(Items), ev \in Seq(Items) : w = wire /\ ev = events
        BY Before
      <3>2. T = ev \o w /\ U = Append(ev, m) \o w /\ o = Len(ev \o w) /\ p = Len(ev)
        BY <2>1, <2>7, <3>1
      <3>3. /\ o \in Nat /\ p \in 0..o /\ Len(Append(ev, m) \o w) = o + 1
            /\ Entered(ev \o w, o, p, m, Append(ev, m) \o w)
        BY ONLY <3>2, w \in Seq(Items), ev \in Seq(Items), m \in Items DEF Entered
      <3> QED
        BY ONLY <3>2, <3>3
    <2>9. ChainOK(T) /\ Contiguous(T, b)
      BY <1>6, <2>7 DEF InputInv, ChainOK
    <2>10. Contiguous(U, b) /\ \A c : Tip(T, b, c) => Tip(U, b, c)
      BY <1>3, <2>8, <2>9, EnterContiguous
    <2>11. U = events' \o wire'
      BY ONLY <1>2, <1>4, <2>7
    <2> QED
      BY <1>2, <2>6, <2>7, <2>9, <2>10, <2>11 DEF ChainOK
  <1> QED
    BY <1>2, <1>5, <1>6 DEF InputInv

(* Whatever is lost with the channel, the loss itself releases everything. *)
LEMMA PeerClosesKeeps ==
    ASSUME InputInv, PeerCloses
    PROVE  InputInv'
  <1>1. PICK m \in Items : m = Signal("lost") /\ ~IsInput(m) /\ m.event.kind = "lost"
    BY SignalTyped
  <1>2. /\ state' = "gone" /\ wire' = <<>> /\ events' = Append(events, m)
        /\ sender' = sender /\ held' = held /\ focus' = focus /\ host' = host
    BY <1>1 DEF PeerCloses, hostVars
  <1>3. sender.queue = <<>> /\ sender.inFlight = Nil
    <2>1. CASE state = "failed"
      BY <2>1, Before DEF SenderOK
    <2>2. CASE state = "closing" /\ Pending(sender) = 0
      <3>1. Len(sender.queue) \in Nat
        BY Before
      <3>2. PICK l \in Nat : l = Len(sender.queue)
        BY <3>1
      <3>3. CASE sender.inFlight = Nil
        BY <2>2, <3>2, <3>3, Before DEF Pending
      <3>4. CASE sender.inFlight # Nil
        <4>1. l + 1 = 0
          BY <2>2, <3>2, <3>4 DEF Pending
        <4> QED
          BY <4>1
      <3> QED
        BY <3>3, <3>4
    <2> QED
      BY <2>1, <2>2 DEF PeerCloses
  <1>4. events' \in Seq(Items) /\ wire' \in Seq(Envelopes)
    <2>1. Append(events, m) \in Seq(Items) /\ <<>> \in Seq(Envelopes)
      BY Before
    <2> QED
      BY <1>2, <2>1
  <1>5. Types' /\ HostOK' /\ SenderOK'
    BY <1>2, <1>3, <1>4 DEF InputInv, Types, States, HostOK, SenderOK, Alive
  <1>6. ASSUME host.peer # "Closed"
        PROVE  /\ PressOK(Line(events, wire, sender.queue), Size(events, wire, sender.queue))'
               /\ ChainOK(events \o wire)'
    <2>1. PICK Z, n, W, p :
            /\ Z = Line(events, wire, sender.queue) /\ n = Size(events, wire, sender.queue)
            /\ W = Line(Append(events, m), <<>>, <<>>) /\ p = Len(events)
      OBVIOUS
    <2>2. /\ n \in Nat /\ p \in Nat /\ p <= n /\ Size(Append(events, m), <<>>, <<>>) = p + 1
          /\ (\A i \in 1..p : W[i] = Z[i]) /\ W[p + 1] = m.event
      BY <2>1, Before, LineEnds
    <2>3. /\ W = Line(events', wire', sender'.queue) /\ p + 1 = Size(events', wire', sender'.queue)
          /\ host'.pressed = host.pressed
      BY ONLY <1>2, <1>3, <2>1, <2>2
    <2>4. NoRepress(Z, n, host.pressed)
      BY <1>6, <2>1 DEF InputInv, PressOK
    <2>5. NoRepress(Z, p, host.pressed)
      BY <2>2, <2>4, Cut
    <2>6. Lifts(W[p + 1]) /\ \A k : ~Presses(W[p + 1], k)
      BY <1>1, <2>2 DEF Lifts, Presses
    <2>7. NoRepress(W, p + 1, host.pressed) /\ AllLifted(W, p + 1, host.pressed)
      BY <2>2, <2>5, <2>6, Longer
    <2>8. PressOK(Line(events, wire, sender.queue), Size(events, wire, sender.queue))'
      BY <1>2, <2>3, <2>7 DEF PressOK, Alive
    <2>9. PICK T, V, U, b, o : /\ T = events \o wire /\ V = events /\ U = Append(events, m) \o <<>>
                               /\ b = host.last + host.dropped /\ o = Len(events \o wire)
      OBVIOUS
    <2>10. /\ o \in Nat /\ o = Len(T) /\ p = Len(V) /\ p <= o /\ p + 1 = Len(U)
           /\ (\A i \in 1..p : V[i] = T[i]) /\ (\A i \in 1..p : U[i] = V[i]) /\ U[p + 1] = m
      <3>1. PICK w \in Seq(Items), ev \in Seq(Items) : w = wire /\ ev = events
        BY Before
      <3>2. /\ T = ev \o w /\ V = ev /\ U = Append(ev, m) \o <<>> /\ o = Len(ev \o w)
            /\ p = Len(ev)
        BY <2>1, <2>9, <3>1
      <3>3. /\ o \in Nat /\ p <= o /\ Len(Append(ev, m) \o <<>>) = p + 1
            /\ (\A i \in 1..p : ev[i] = (ev \o w)[i])
            /\ (\A i \in 1..p : (Append(ev, m) \o <<>>)[i] = ev[i])
            /\ (Append(ev, m) \o <<>>)[p + 1] = m
        BY ONLY <3>2, w \in Seq(Items), ev \in Seq(Items), m \in Items
      <3> QED
        BY ONLY <3>2, <3>3
    <2>11. Contiguous(T, b)
      BY <1>6, <2>9 DEF InputInv, ChainOK
    <2>12. Contiguous(V, b)
      BY <2>2, <2>10, <2>11, CutContiguous
    <2>13. Contiguous(U, b)
      <3>1. PICK c : c = 0
        OBVIOUS
      <3>2. IsInput(U[p + 1]) => Tip(V, b, c) /\ U[p + 1].seq = c + 1
        BY <1>1, <2>10
      <3> QED
        BY <2>2, <2>10, <2>12, <3>2, AddContiguous
    <2>14. U = events' \o wire'
      BY ONLY <1>2, <2>9
    <2> QED
      BY <1>2, <2>8, <2>9, <2>13, <2>14 DEF ChainOK
  <1> QED
    BY <1>2, <1>5, <1>6 DEF InputInv

----------------------------------------------------------------------------
(* The invariant survives the Host's steps.                                *)

(* The Host holds no key that event m frees, and counts m.                 *)
Took(m) ==
    /\ state' = state /\ sender' = sender /\ held' = held /\ focus' = focus /\ wire' = wire
    /\ events' = Tail(events) /\ host' \in Hosts /\ HostOK'
    /\ host'.peer # "Closed" =>
         /\ \A k \in host'.pressed : \/ k \in host.pressed /\ ~Frees(m.event, k)
                                     \/ Presses(m.event, k)
         /\ host'.last + host'.dropped = IF IsInput(m) THEN (host.last + host.dropped) + 1
                                         ELSE host.last + host.dropped

(* What the Host takes next: a press of a key that it does not hold, the   *)
(* number after those that it applied and dropped.                         *)
LEMMA TakesFirst ==
    ASSUME InputInv, events # <<>>, host.peer # "Closed", NEW m, m = Head(events)
    PROVE  /\ m \in Items
           /\ IsInput(m) => m.seq = host.last + host.dropped + 1
           /\ \A k \in Keys : Presses(m.event, k) => k \notin host.pressed
           /\ Took(m) => InputInv'
  <1>0. m \in Items
    BY Before
  <1>1. PICK Z, n, W : /\ Z = Line(events, wire, sender.queue)
                       /\ n = Size(Tail(events), wire, sender.queue)
                       /\ W = Line(Tail(events), wire, sender.queue)
    OBVIOUS
  <1>2. /\ n \in Nat /\ Size(events, wire, sender.queue) = n + 1 /\ Z[1] = m.event
        /\ \A i \in 1..n : W[i] = Z[i + 1]
    BY <1>1, Before, LineTakes
  <1>3. PressOK(Z, n + 1)
    BY <1>1, <1>2 DEF InputInv
  <1>4. PICK T, U, b, o : /\ T = events \o wire /\ U = Tail(events) \o wire
                          /\ b = host.last + host.dropped /\ o = Len(Tail(events) \o wire)
    OBVIOUS
  <1>5. /\ o \in Nat /\ o + 1 = Len(T) /\ o = Len(U) /\ T[1] = m /\ b \in Nat
        /\ \A i \in 1..o : U[i] = T[i + 1]
    <2>1. PICK w \in Seq(Items), ev \in Seq(Items) : w = wire /\ ev = events
      BY Before
    <2>2. /\ T = ev \o w /\ U = Tail(ev) \o w /\ o = Len(Tail(ev) \o w) /\ m = Head(ev)
          /\ ev # <<>>
      BY <1>4, <2>1
    <2>3. /\ o \in Nat /\ Len(ev \o w) = o + 1 /\ (ev \o w)[1] = m
          /\ \A i \in 1..o : (Tail(ev) \o w)[i] = (ev \o w)[i + 1]
      BY ONLY <2>2, w \in Seq(Items), ev \in Seq(Items)
    <2>4. b \in Nat
      BY <1>4, Before
    <2> QED
      BY ONLY <2>2, <2>3, <2>4
  <1>6. ChainOK(T) /\ Contiguous(T, b)
    BY <1>4 DEF InputInv, ChainOK
  <1>7. PICK d \in Nat : d = IF IsInput(T[1]) THEN b + 1 ELSE b
    BY <1>5
  <1>8. /\ IsInput(T[1]) => T[1].seq = b + 1
        /\ Contiguous(U, d)
        /\ \A c : Tip(T, b, c) => Tip(U, d, c)
    BY <1>5, <1>6, <1>7, TakeContiguous
  <1>9. ASSUME NEW k \in Keys, Presses(m.event, k)
        PROVE  k \notin host.pressed
    <2>1. 1 \in 1..n + 1 /\ 1 - 1 = 0 /\ \A i \in 1..0 : FALSE
      BY <1>2
    <2>2. Settled(Z, 0, host.pressed, k)
      BY <1>2, <1>3, <1>9, <2>1 DEF PressOK, NoRepress
    <2> QED
      BY <2>1, <2>2 DEF Settled
  <1>10. ASSUME Took(m)
         PROVE  InputInv'
    <2>0. /\ state' = state /\ sender' = sender /\ held' = held /\ focus' = focus /\ wire' = wire
          /\ events' = Tail(events) /\ host' \in Hosts /\ HostOK'
      BY <1>10 DEF Took
    <2>1. events' \in Seq(Items)
      BY <2>0, Before
    <2>2. Types' /\ SenderOK'
      BY <2>0, <2>1 DEF InputInv, Types, SenderOK, Alive
    <2>3. ASSUME host'.peer # "Closed"
          PROVE  /\ PressOK(Line(events, wire, sender.queue), Size(events, wire, sender.queue))'
                 /\ ChainOK(events \o wire)'
      <3>1. PICK P, Q : P = host.pressed /\ Q = host'.pressed
        OBVIOUS
      <3>2. Q \in SUBSET Keys /\ \A k \in Q : (k \in P /\ ~Frees(Z[1], k)) \/ Presses(Z[1], k)
        BY <1>2, <1>10, <2>0, <2>3, <3>1 DEF Hosts, Took
      <3>3. /\ \A k \in Keys : Settled(Z, n + 1, P, k) => Settled(W, n, Q, k)
            /\ NoRepress(Z, n + 1, P) => NoRepress(W, n, Q)
            /\ AllLifted(Z, n + 1, P) => AllLifted(W, n, Q)
        BY <1>2, <3>2, Shorter
      <3>4. /\ W = Line(events', wire', sender'.queue) /\ n = Size(events', wire', sender'.queue)
        BY ONLY <1>1, <2>0
      <3>5. PressOK(Line(events, wire, sender.queue), Size(events, wire, sender.queue))'
        BY <1>3, <2>0, <3>1, <3>3, <3>4 DEF PressOK, Alive
      <3>6. U = events' \o wire' /\ d = host'.last + host'.dropped
        BY <1>4, <1>5, <1>7, <1>10, <2>0, <2>3 DEF Took
      <3> QED
        BY <1>4, <1>6, <1>8, <2>0, <3>5, <3>6 DEF ChainOK
    <2> QED
      BY <2>0, <2>2, <2>3 DEF InputInv
  <1> QED
    BY <1>0, <1>4, <1>5, <1>8, <1>9, <1>10

LEMMA ClosedShape ==
    ASSUME InputInv, NEW why \in {"sequence", "failed", "close", "ended"}
    PROVE  /\ Closed(why) \in Hosts /\ Closed(why).peer = "Closed" /\ Closed(why).pressed = {}
  BY DEF Closed, InputInv, Types, Hosts

LEMMA ReconnectShape ==
    ASSUME InputInv
    PROVE  /\ begin_reconnect \in Hosts /\ begin_reconnect.pressed = {}
           /\ begin_reconnect.last = host.last /\ begin_reconnect.dropped = host.dropped
  BY DEF begin_reconnect, InputInv, Types, Hosts

(* Reliable input is applied, dropped, or ends the session; a press of a   *)
(* key that is already down does not happen.                               *)
LEMMA InputTaken ==
    ASSUME InputInv, events # <<>>, host.peer # "Closed", NEW m, m = Head(events),
           m.event \in InputEvents, IsInput(m), m.seq \in Nat, handle_reliable(m)
    PROVE  /\ host' \in Hosts /\ HostOK'
           /\ host'.peer # "Closed" =>
                /\ \A k \in host'.pressed : \/ k \in host.pressed /\ ~Frees(m.event, k)
                                            \/ Presses(m.event, k)
                /\ host'.last + host'.dropped = (host.last + host.dropped) + 1
  <1>1. /\ host \in Hosts /\ host.last \in Nat /\ host.dropped \in Nat /\ HostOK
        /\ m.seq = host.last + host.dropped + 1
        /\ \A k \in Keys : Presses(m.event, k) => k \notin host.pressed
    BY Before, TakesFirst DEF Types
  <1>2. PICK e : e = m.event
    OBVIOUS
  <1>3. /\ e \in InputEvents /\ e.kind \in {"down", "up", "release", "close"}
        /\ e.kind \in {"down", "up"} => e.key \in Keys
    BY <1>2, EventsTyped
  <1>4. ASSUME NEW why \in {"sequence", "failed", "close", "ended"}, host' = Closed(why)
        PROVE  host' \in Hosts /\ HostOK' /\ host'.peer = "Closed"
    BY <1>4, ClosedShape DEF HostOK
  <1>5. CASE host.suspended
    <2>1. host' = [host EXCEPT !.dropped = @ + 1] /\ host.pressed = {}
      BY <1>1, <1>5 DEF handle_reliable, HostOK
    <2>2. PICK d \in Nat : d = host.dropped + 1
      BY <1>1
    <2>3. host' = [host EXCEPT !.dropped = d]
      BY <2>1, <2>2
    <2>4. host' \in Hosts /\ host'.pressed = {} /\ host'.last = host.last /\ host'.dropped = d
      BY <1>1, <2>1, <2>3 DEF Hosts
    <2> QED
      BY <1>1, <2>2, <2>4 DEF HostOK
  <1>6. CASE ~host.suspended /\ host' = Closed("failed")
    BY <1>4, <1>6
  <1>7. CASE ~host.suspended /\ m.seq # host.last + 1 /\ host' = Closed("sequence")
    BY <1>4, <1>7
  <1>8. CASE ~host.suspended /\ m.seq = host.last + 1 /\ host' = apply_reliable_event(m)
    <2>1. PICK l \in Nat : l = m.seq /\ host.dropped = 0 /\ l = host.last + 1
      BY <1>1, <1>8
    <2>2. PICK P \in SUBSET Keys : P = host.pressed
      BY <1>1 DEF Hosts
    <2>3. ASSUME NEW Q \in SUBSET Keys, host' = [host EXCEPT !.last = l, !.pressed = Q]
          PROVE  /\ host' \in Hosts /\ HostOK' /\ host'.pressed = Q
                 /\ host'.last + host'.dropped = (host.last + host.dropped) + 1
      <3>1. /\ host' \in Hosts /\ host'.pressed = Q /\ host'.last = l /\ host'.dropped = host.dropped
            /\ host'.suspended = host.suspended /\ host'.peer = host.peer
        BY <1>1, <2>3 DEF Hosts
      <3>2. HostOK'
        BY <1>8, <3>1 DEF HostOK
      <3> QED
        BY <1>1, <2>1, <3>1, <3>2
    <2>4. CASE e.kind = "down"
      <3>1. e.key \in Keys /\ e.key \notin host.pressed
        BY <1>1, <1>2, <1>3, <2>4 DEF Presses
      <3>2. PICK Q \in SUBSET Keys : Q = P \cup {e.key}
        BY <3>1
      <3>3. host' = [host EXCEPT !.last = l, !.pressed = Q]
        <4>1. host' = [[host EXCEPT !.last = m.seq] EXCEPT !.pressed = @ \cup {m.event.key}]
          BY <1>2, <1>8, <2>4, <3>1 DEF apply_reliable_event
        <4> QED
          BY <1>1, <1>2, <2>1, <2>2, <3>2, <4>1 DEF Hosts
      <3> QED
        BY <1>2, <2>2, <2>3, <2>4, <3>2, <3>3 DEF Frees, Lifts, Presses
    <2>5. CASE e.kind = "up"
      <3>1. PICK Q \in SUBSET Keys : Q = P \ {e.key}
        OBVIOUS
      <3>2. host' = [host EXCEPT !.last = l, !.pressed = Q]
        <4>1. host' = [[host EXCEPT !.last = m.seq] EXCEPT !.pressed = @ \ {m.event.key}]
          BY <1>2, <1>8, <2>5 DEF apply_reliable_event
        <4> QED
          BY <1>1, <1>2, <2>1, <2>2, <3>1, <4>1 DEF Hosts
      <3> QED
        BY <1>2, <2>2, <2>3, <2>5, <3>1, <3>2 DEF Frees, Lifts
    <2>6. CASE e.kind = "release"
      <3>1. PICK Q \in SUBSET Keys : Q = {}
        OBVIOUS
      <3>2. host' = [host EXCEPT !.last = l, !.pressed = Q]
        <4>1. host' = [[host EXCEPT !.last = m.seq] EXCEPT !.pressed = {}]
          BY <1>2, <1>8, <2>6 DEF apply_reliable_event
        <4> QED
          BY <1>1, <2>1, <3>1, <4>1 DEF Hosts
      <3> QED
        BY <2>3, <3>1, <3>2
    <2>7. CASE e.kind = "close"
      <3>1. host' = Closed("close")
        BY <1>2, <1>8, <2>7 DEF apply_reliable_event
      <3> QED
        BY <1>4, <3>1
    <2> QED
      BY <1>3, <2>4, <2>5, <2>6, <2>7
  <1> QED
    BY <1>5, <1>6, <1>7, <1>8 DEF handle_reliable

LEMMA PollKeeps ==
    ASSUME InputInv, Poll
    PROVE  InputInv'
  <1>1. PICK m : m = Head(events)
    OBVIOUS
  <1>2. /\ events # <<>> /\ host.peer # "Closed" /\ events' = Tail(events) /\ wire' = wire
        /\ state' = state /\ sender' = sender /\ held' = held /\ focus' = focus
    BY DEF Poll, controllerVars
  <1>3. m \in Items /\ host \in Hosts
    BY <1>1, <1>2, TakesFirst, Before DEF Types
  <1>4. CASE m.event.kind = "connected"
    <2>1. host' = [host EXCEPT !.peer = "Connected", !.suspended = FALSE]
      BY <1>1, <1>4 DEF Poll
    <2>2. /\ host' \in Hosts /\ host'.pressed = host.pressed /\ host'.last = host.last
          /\ host'.dropped = host.dropped /\ ~host'.suspended /\ host'.peer # "Closed"
      BY <1>3, <2>1 DEF Hosts
    <2>3. ~IsInput(m) /\ \A k : ~Frees(m.event, k)
      BY <1>3, <1>4, SignalTyped DEF Frees, Lifts
    <2>4. Took(m)
      BY <1>2, <2>2, <2>3 DEF Took, HostOK
    <2> QED
      BY <1>1, <1>2, <2>4, TakesFirst
  <1>5. CASE m.event.kind = "lost"
    <2>1. host' \in {begin_reconnect, Closed("failed")}
      BY <1>1, <1>5 DEF Poll
    <2>2. /\ host' \in Hosts /\ host'.pressed = {}
          /\ host'.peer # "Closed" => host'.last = host.last /\ host'.dropped = host.dropped
      BY <2>1, ReconnectShape, ClosedShape
    <2>3. ~IsInput(m)
      BY <1>3, <1>5, SignalTyped
    <2>4. Took(m)
      BY <1>2, <2>2, <2>3 DEF Took, HostOK
    <2> QED
      BY <1>1, <1>2, <2>4, TakesFirst
  <1>6. CASE m.event.kind \notin {"connected", "lost"}
    <2>1. handle_reliable(m)
      BY <1>1, <1>6 DEF Poll
    <2>2. m.event \in InputEvents /\ IsInput(m) /\ m.seq \in Nat
      BY <1>3, <1>6, SignalTyped
    <2>3. Took(m)
      BY <1>1, <1>2, <2>1, <2>2, InputTaken DEF Took
    <2> QED
      BY <1>1, <1>2, <2>3, TakesFirst
  <1> QED
    BY <1>4, <1>5, <1>6

(* Only the Host's session changes: it gives its keys up.                  *)
LEMMA HostGivesUp ==
    ASSUME InputInv, host' \in Hosts, host'.pressed = {},
           host'.peer # "Closed" => /\ host.peer # "Closed"
                                    /\ host'.last = host.last /\ host'.dropped = host.dropped,
           state' = state, sender' = sender, held' = held, focus' = focus, wire' = wire,
           events' = events
    PROVE  InputInv'
  <1>1. Types' /\ SenderOK' /\ HostOK'
    BY DEF InputInv, Types, SenderOK, HostOK, Alive
  <1>2. ASSUME host'.peer # "Closed"
        PROVE  /\ PressOK(Line(events, wire, sender.queue), Size(events, wire, sender.queue))'
               /\ ChainOK(events \o wire)'
    <2>1. PICK Z, n, P, Q : /\ Z = Line(events, wire, sender.queue) /\ P = host.pressed /\ Q = {}
                            /\ n = Size(events, wire, sender.queue)
      OBVIOUS
    <2>2. n \in Nat /\ Q \subseteq P
      BY <2>1, Before, LineCancels
    <2>3. /\ \A k : Settled(Z, n, P, k) => Settled(Z, n, Q, k)
          /\ NoRepress(Z, n, P) => NoRepress(Z, n, Q)
          /\ AllLifted(Z, n, P) => AllLifted(Z, n, Q)
      BY <2>2, Fewer
    <2>4. PressOK(Z, n) /\ ChainOK(events \o wire)
      BY <1>2, <2>1 DEF InputInv
    <2>5. /\ Z = Line(events', wire', sender'.queue) /\ n = Size(events', wire', sender'.queue)
          /\ Q = host'.pressed
      BY <2>1
    <2>6. PressOK(Line(events, wire, sender.queue), Size(events, wire, sender.queue))'
      BY <2>1, <2>3, <2>4, <2>5 DEF PressOK, Alive
    <2> QED
      BY <1>2, <2>4, <2>6 DEF ChainOK
  <1> QED
    BY <1>1, <1>2 DEF InputInv

LEMMA SignalingLostKeeps ==
    ASSUME InputInv, signaling_lost
    PROVE  InputInv'
  <1>1. /\ host' = IF host.peer = "Closed" THEN host ELSE begin_reconnect
        /\ state' = state /\ sender' = sender /\ held' = held /\ focus' = focus /\ wire' = wire
        /\ events' = events
    BY DEF signaling_lost, controllerVars
  <1>2. host \in Hosts /\ HostOK
    BY Before DEF Types
  <1>3. /\ host' \in Hosts /\ host'.pressed = {}
        /\ host'.peer # "Closed" => /\ host.peer # "Closed"
                                    /\ host'.last = host.last /\ host'.dropped = host.dropped
    BY <1>1, <1>2, ReconnectShape DEF HostOK
  <1> QED
    BY <1>1, <1>3, HostGivesUp

LEMMA EndsKeeps ==
    ASSUME InputInv, Ends
    PROVE  InputInv'
  <1>1. /\ host' = Closed("ended")
        /\ state' = state /\ sender' = sender /\ held' = held /\ focus' = focus /\ wire' = wire
        /\ events' = events
    BY DEF Ends, controllerVars
  <1>2. host' \in Hosts /\ host'.pressed = {} /\ host'.peer = "Closed"
    BY <1>1, ClosedShape
  <1> QED
    BY <1>1, <1>2, HostGivesUp

----------------------------------------------------------------------------
(* The invariant holds at first, and always.                               *)

LEMMA InputInit == Init => InputInv
  <1> SUFFICES ASSUME Init
               PROVE  InputInv
    OBVIOUS
  <1>1. /\ state = "connected" /\ held = {} /\ focus = TRUE /\ wire = <<>> /\ events = <<>>
        /\ sender = [suspended |-> FALSE, releaseSent |-> FALSE, failed |-> FALSE,
                     closed |-> FALSE, queue |-> <<>>, inFlight |-> Nil, seq |-> 0]
        /\ host = [peer |-> "Connected", suspended |-> FALSE, last |-> 0, dropped |-> 0,
                   pressed |-> {}, why |-> Nil]
    BY DEF Init
  <1>2. <<>> \in Seq(InputEvents) /\ <<>> \in Seq(Envelopes) /\ <<>> \in Seq(Items)
    OBVIOUS
  <1>3. sender \in Senders
    BY <1>1, <1>2 DEF Senders
  <1>4. host \in Hosts
    BY <1>1 DEF Hosts
  <1>5. Types
    BY <1>1, <1>2, <1>3, <1>4 DEF Types, States
  <1>6. SenderOK /\ HostOK
    BY <1>1 DEF SenderOK, HostOK, Alive
  <1>7. PICK Z, n, T : /\ Z = Line(events, wire, sender.queue) /\ n = Size(events, wire, sender.queue)
                       /\ T = events \o wire
    OBVIOUS
  <1>8. n = 0 /\ Len(T) = 0 /\ (\A i \in 1..n : FALSE) /\ (\A i \in 1..Len(T) : FALSE)
    BY <1>1, <1>7 DEF Size
  <1>9. PressOK(Z, n)
    BY <1>1, <1>8 DEF PressOK, NoRepress, Settled, AllLifted, Alive
  <1>10. ChainOK(T)
    BY <1>1, <1>8 DEF ChainOK, Contiguous, Tip
  <1> QED
    BY <1>5, <1>6, <1>7, <1>9, <1>10 DEF InputInv

LEMMA InputSame ==
    ASSUME InputInv, state' = state, sender' = sender, held' = held, focus' = focus,
           wire' = wire, events' = events, host' = host
    PROVE  InputInv'
  BY DEF InputInv, Types, SenderOK, HostOK, PressOK, ChainOK, Alive

LEMMA InputNext == InputInv /\ [Next]_vars => InputInv'
  <1> SUFFICES ASSUME InputInv, [Next]_vars
               PROVE  InputInv'
    OBVIOUS
  <1>1. ASSUME NEW k \in Keys, UserInput(k)
        PROVE  InputInv'
    BY <1>1, UserInputKeeps
  <1>2. CASE _onFocusChanged
    BY <1>2, FocusKeeps
  <1>3. CASE _dispatchReliable
    BY <1>3, DispatchKeeps
  <1>4. CASE SendCompletes
    BY <1>4, SendCompletesKeeps
  <1>5. CASE SendFails
    BY <1>5, SendFailsKeeps
  <1>6. CASE _handleRecoverableFailure
    BY <1>6, SuspendKeeps
  <1>7. CASE _completeReconnect
    BY <1>7, ResumeKeeps
  <1>8. CASE _performResourceClose
    BY <1>8, CloseKeeps
  <1>9. CASE Deliver
    BY <1>9, DeliverKeeps
  <1>10. CASE NativeSignal
    BY <1>10, NativeSignalKeeps
  <1>11. CASE PeerCloses
    BY <1>11, PeerClosesKeeps
  <1>12. CASE Poll
    BY <1>12, PollKeeps
  <1>13. CASE signaling_lost
    BY <1>13, SignalingLostKeeps
  <1>14. CASE Registered
    BY <1>14, InputSame DEF Registered, controllerVars
  <1>15. CASE Ends
    BY <1>15, EndsKeeps
  <1>16. CASE Rest \/ UNCHANGED vars
    BY <1>16, InputSame DEF Rest, vars, controllerVars, hostVars
  <1> QED
    BY <1>1, <1>2, <1>3, <1>4, <1>5, <1>6, <1>7, <1>8, <1>9, <1>10, <1>11, <1>12, <1>13,
       <1>14, <1>15, <1>16 DEF Next

(* Sender, channel and Host agree, in every state that can be reached, on  *)
(* which keys are down and which number comes next: the invariant that the *)
(* three results below rest on.                                            *)
THEOREM InputInvariant == Spec => []InputInv
  BY InputInit, InputNext, PTL DEF Spec

(* Whatever the sender cancels and whatever the Host drops, the envelopes  *)
(* reach the Host's sequence check numbered without a gap.                 *)
THEOREM WireStaysContiguous == Spec => []WireContiguous
  <1>1. InputInv => WireContiguous
    BY DEF InputInv, WireContiguous, ChainOK
  <1> QED
    BY <1>1, InputInvariant, PTL

(* A key that the Host holds while the page has no focus, or while the     *)
(* sender is suspended or given up, has its release on the way.            *)
THEOREM NoKeyStuck == Spec => []NoStuckKeys
  <1>1. InputInv => NoStuckKeys
    <2> SUFFICES ASSUME InputInv, sender.suspended \/ ~focus, host.pressed # {}, state # "failed",
                        ~Contains(sender.queue, ReleaseAll)
                 PROVE  \E i \in DOMAIN (events \o wire) : Releases((events \o wire)[i])
      BY DEF NoStuckKeys
    <2>1. host.peer # "Closed"
      BY Before DEF HostOK
    <2>2. (sender.releaseSent /\ state # "failed") \/ state = "gone"
      BY Before DEF SenderOK, Types, States, Alive
    <2>3. PICK Z, n : Z = Line(events, wire, sender.queue) /\ n = Size(events, wire, sender.queue)
      OBVIOUS
    <2>4. AllLifted(Z, n, host.pressed)
      BY <2>1, <2>2, <2>3 DEF InputInv, PressOK
    <2>5. PICK i \in 1..n : Lifts(Z[i])
      BY <2>4 DEF AllLifted
    <2>6. PICK ev \in Seq(Items), w \in Seq(Items), q \in Seq(InputEvents) :
            ev = events /\ w = wire /\ q = sender.queue
      BY Before
    <2>7. n = Len(ev) + Len(w) + Len(q) /\ i \in 1..Len(ev) + Len(w) + Len(q)
      BY <2>3, <2>5, <2>6 DEF Size
    <2>8. CASE i <= Len(ev) + Len(w)
      <3>1. Z[i] = (ev \o w)[i].event /\ i \in DOMAIN (ev \o w)
        <4>1. Z[i] = IF i <= Len(ev) THEN ev[i].event ELSE w[i - Len(ev)].event
          BY <2>3, <2>6, <2>7, <2>8 DEF Line, Size
        <4> QED
          BY ONLY <2>7, <2>8, <4>1, ev \in Seq(Items), w \in Seq(Items), i \in 1..n
      <3>2. Releases((ev \o w)[i])
        BY <2>5, <3>1 DEF Lifts, Releases
      <3> QED
        BY <2>6, <3>1, <3>2
    <2>9. CASE ~(i <= Len(ev) + Len(w))
      <3>1. Len(ev) \in Nat /\ Len(w) \in Nat /\ Len(q) \in Nat
        OBVIOUS
      <3>2. PICK j \in 1..Len(q) : j = i - Len(ev) - Len(w)
        <4>1. i - Len(ev) - Len(w) \in 1..Len(q)
          BY ONLY <2>7, <2>9, <3>1
        <4> QED
          BY <4>1
      <3>3. Z[i] = q[j]
        <4>1. ~(i <= Len(ev)) /\ i \in 1..n
          BY ONLY <2>7, <2>9, <3>1, i \in 1..n
        <4> QED
          BY <2>3, <2>6, <2>9, <3>2, <4>1 DEF Line
      <3>4. q[j] \in InputEvents
        OBVIOUS
      <3>5. q[j] = ReleaseAll
        BY <2>5, <3>3, <3>4, EventsTyped DEF Lifts
      <3>6. Contains(sender.queue, ReleaseAll)
        BY <2>6, <3>5 DEF Contains
      <3> QED
        BY <3>6
    <2> QED
      BY <2>8, <2>9
  <1> QED
    BY <1>1, InputInvariant, PTL

(* The Host never closes a session because a key is pressed twice.         *)
THEOREM NoPressRepeated == Spec => []NoDoublePress
  <1>1. InputInv => NoDoublePress
    <2> SUFFICES ASSUME InputInv, host.why = "pressed"
                 PROVE  FALSE
      BY DEF NoDoublePress
    <2>1. host.why \in {Nil, "sequence", "failed", "close", "ended"}
      BY Before DEF Types, Hosts
    <2>2. Nil # "pressed"
      BY InputAssumption DEF InputAssumption
    <2> QED
      BY <2>1, <2>2
  <1> QED
    BY <1>1, InputInvariant, PTL
=============================================================================
