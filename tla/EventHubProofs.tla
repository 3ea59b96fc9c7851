--------------------------- MODULE EventHubProofs ---------------------------
(***************************************************************************)
(* What the tab shows: for any number of events, connections and retries   *)
(* and any size of the hub's buffers.                                      *)
(***************************************************************************)
EXTENDS EventHub, SeqFilterProofs

E == 1 .. MaxEvents

-----------------------------------------------------------------------------
(* Ascending sorts: it orders the events and keeps how often each is there.*)

Sorted(s) == \A i, j \in 1 .. Len(s) : i < j => s[i] <= s[j]

(* What a function that collects the events of s one by one is.            *)
Sorts(f, s, n) ==
  f = [e \in 0 .. n |-> IF e = 0 THEN << >> ELSE f[e - 1] \o Filter(s, {e})]

Collects(f, s, e) == f[e] = f[e - 1] \o Filter(s, {e})

LEMMA SortsStep ==
  ASSUME NEW f, NEW s, NEW n \in Nat, Sorts(f, s, n), NEW e \in 1 .. n
  PROVE  Collects(f, s, e)
  <1>1. e \in 0 .. n /\ e # 0
    OBVIOUS
  <1>2. f = [d \in 0 .. n |-> IF d = 0 THEN << >> ELSE f[d - 1] \o Filter(s, {d})]
    BY DEF Sorts
  <1> QED
    BY <1>1, <1>2, Zenon DEF Collects

LEMMA SortsExists ==
  ASSUME NEW s, NEW n \in Nat
  PROVE  \E f : Sorts(f, s, n)
  <1> DEFINE T == { m \in Nat : \E f : Sorts(f, s, m) }
  <1>1. 0 \in T
    <2>1. Sorts([e \in 0 .. 0 |-> << >>], s, 0)
      BY DEF Sorts
    <2> QED
      BY <2>1
  <1>2. ASSUME NEW m \in Nat, m \in T PROVE m + 1 \in T
    <2>1. PICK f : Sorts(f, s, m)
      BY <1>2
    <2>2. PICK g : g = [e \in 0 .. m + 1 |-> IF e <= m THEN f[e] ELSE f[e - 1] \o Filter(s, {e})]
      OBVIOUS
    <2>3. DOMAIN g = 0 .. m + 1 /\ g = [e \in 0 .. m + 1 |-> g[e]]
      BY <2>2
    <2>4. ASSUME NEW e \in 0 .. m + 1
          PROVE  g[e] = IF e = 0 THEN << >> ELSE g[e - 1] \o Filter(s, {e})
      <3>1. CASE e = 0
        BY <2>1, <2>2, <3>1 DEF Sorts
      <3>2. CASE e # 0 /\ e <= m
        <4>1. g[e] = f[e] /\ g[e - 1] = f[e - 1]
          BY <2>2, <3>2
        <4>2. e \in 1 .. m
          BY <3>2
        <4>3. Collects(f, s, e)
          BY <2>1, <4>2, SortsStep
        <4> QED
          BY <3>2, <4>1, <4>3, Zenon DEF Collects
      <3>3. CASE e = m + 1
        <4>1. g[e - 1] = f[e - 1]
          BY <2>2, <3>3
        <4> QED
          BY <2>2, <3>3, <4>1
      <3> QED
        BY <3>1, <3>2, <3>3
    <2>5. Sorts(g, s, m + 1)
      BY <2>3, <2>4 DEF Sorts
    <2> QED
      BY <2>5
  <1> HIDE DEF T
  <1>3. n \in T
    BY <1>1, <1>2, NumberInduction
  <1> QED
    BY <1>3 DEF T

LEMMA AscendingIs ==
  ASSUME NEW s
  PROVE  \E f : Sorts(f, s, MaxEvents) /\ Ascending(s) = f[MaxEvents]
  <1> DEFINE f == CHOOSE f : Sorts(f, s, MaxEvents)
  <1>1. Sorts(f, s, MaxEvents)
    BY SortsExists, HubAssumption
  <1>2. Ascending(s) = f[MaxEvents]
    BY DEF Ascending, Sorts
  <1> QED
    BY <1>1, <1>2

LEMMA AscendingSorts ==
  ASSUME NEW s \in Seq(E)
  PROVE  /\ Ascending(s) \in Seq(E)
         /\ Sorted(Ascending(s))
         /\ \A e \in E : Times(Ascending(s), e) = Times(s, e)
  <1>1. PICK f : Sorts(f, s, MaxEvents) /\ Ascending(s) = f[MaxEvents]
    BY AscendingIs
  <1> DEFINE Good(n, t) ==
        /\ t \in Seq(E)
        /\ Sorted(t)
        /\ \A i \in 1 .. Len(t) : t[i] <= n
        /\ \A e \in E : Times(t, e) = IF e <= n THEN Times(s, e) ELSE 0
      T == { n \in Nat : n <= MaxEvents => Good(n, f[n]) }
  <1>2. 0 \in T
    <2>1. PICK t : t = << >>
      OBVIOUS
    <2>2. f[0] = t
      BY <1>1, <2>1, HubAssumption DEF Sorts
    <2>3. t \in Seq(E) /\ Len(t) = 0 /\ \A e \in E : Times(t, e) = 0
      BY <2>1, EmptySeq, TimesEmpty
    <2>4. Good(0, t)
      BY <2>3 DEF Sorted, E
    <2> QED
      BY <2>2, <2>4
  <1>3. ASSUME NEW n \in Nat, n \in T PROVE n + 1 \in T
    <2> SUFFICES ASSUME n + 1 <= MaxEvents PROVE Good(n + 1, f[n + 1])
      OBVIOUS
    <2>1. PICK t, k, u : t = f[n] /\ k = Filter(s, {n + 1}) /\ u = f[n + 1]
      OBVIOUS
    <2>2. n + 1 \in 1 .. MaxEvents /\ n + 1 - 1 = n /\ n + 1 \in E
      BY HubAssumption DEF E
    <2>3. u = t \o k
      <3>1. PICK m \in 1 .. MaxEvents : m = n + 1
        BY <2>2
      <3>2. MaxEvents \in Nat
        BY HubAssumption
      <3>3. Collects(f, s, m)
        BY <1>1, <3>1, <3>2, SortsStep
      <3>4. f[m - 1] = t
        BY <2>1, <3>1
      <3> QED
        BY <2>1, <3>1, <3>3, <3>4, Zenon DEF Collects
    <2>4. Good(n, t)
      BY <1>3, <2>1, HubAssumption
    <2>5. k \in Seq(E) /\ \A j \in 1 .. Len(k) : k[j] = n + 1
      BY <2>1, FilterType
    <2>6. PICK lt, lk : lt = Len(t) /\ lk = Len(k)
      OBVIOUS
    <2>7. /\ u \in Seq(E) /\ lt \in Nat /\ lk \in Nat /\ Len(u) = lt + lk
          /\ \A i \in 1 .. Len(u) : u[i] = IF i <= lt THEN t[i] ELSE k[i - lt]
      BY <2>3, <2>4, <2>5, <2>6, ConcatProperties, LenProperties
    <2>8. ASSUME NEW i \in 1 .. Len(u)
          PROVE  (i <= lt => u[i] = t[i]) /\ (i > lt => u[i] = n + 1)
      <3>1. CASE i <= lt
        BY <2>7, <3>1
      <3>2. CASE i > lt
        <4>1. PICK j : j = i - lt
          OBVIOUS
        <4>2. j \in 1 .. lk /\ u[i] = k[j]
          BY <2>7, <3>2, <4>1
        <4> QED
          BY <2>5, <2>6, <2>7, <3>2, <4>2
      <3> QED
        BY <2>7, <3>1, <3>2
    <2>9. \A i \in 1 .. lt : t[i] \in E /\ t[i] <= n
      BY <2>4, <2>6, ElementOfSeq
    <2>10. Sorted(u)
      <3> SUFFICES ASSUME NEW i \in 1 .. Len(u), NEW j \in 1 .. Len(u), i < j
                   PROVE  u[i] <= u[j]
        BY DEF Sorted
      <3>1. CASE j <= lt
        <4>1. i \in 1 .. lt /\ j \in 1 .. lt /\ u[i] = t[i] /\ u[j] = t[j]
          BY <2>7, <2>8, <3>1
        <4> QED
          BY <2>4, <2>6, <4>1 DEF Sorted
      <3>2. CASE j > lt
        <4>1. u[j] = n + 1
          BY <2>7, <2>8, <3>2
        <4>2. CASE i <= lt
          <5>1. i \in 1 .. lt /\ u[i] = t[i]
            BY <2>7, <2>8, <4>2
          <5> QED
            BY <2>9, <4>1, <5>1 DEF E
        <4>3. CASE i > lt
          BY <2>7, <2>8, <4>1, <4>3
        <4> QED
          BY <2>7, <4>2, <4>3
      <3> QED
        BY <2>7, <3>1, <3>2
    <2>11. ASSUME NEW i \in 1 .. Len(u) PROVE u[i] <= n + 1
      <3>1. CASE i <= lt
        <4>1. i \in 1 .. lt /\ u[i] = t[i]
          BY <2>7, <2>8, <3>1
        <4> QED
          BY <2>9, <4>1 DEF E
      <3>2. CASE i > lt
        BY <2>7, <2>8, <3>2
      <3> QED
        BY <2>7, <3>1, <3>2
    <2>12. ASSUME NEW e \in E PROVE Times(u, e) = IF e <= n + 1 THEN Times(s, e) ELSE 0
      <3>1. PICK x, y, z, r : x = Times(t, e) /\ y = Times(k, e) /\ z = Times(u, e) /\ r = Times(s, e)
        OBVIOUS
      <3>2. x \in Nat /\ y \in Nat /\ r \in Nat
        BY <2>4, <2>5, <3>1, TimesCounts
      <3>3. z = x + y
        <4>1. Times(t \o k, e) = Times(t, e) + Times(k, e)
          BY <2>4, <2>5, TimesConcat
        <4> QED
          BY <2>3, <3>1, <4>1, Zenon
      <3>4. x = IF e <= n THEN r ELSE 0
        BY <2>4, <3>1
      <3>5. y = IF e = n + 1 THEN r ELSE 0
        <4>1. PICK d : d = n + 1
          OBVIOUS
        <4>2. Times(Filter(s, {d}), d) = Times(s, d)
          BY TimesKept
        <4>3. y > 0 <=> \E i \in 1 .. Len(k) : k[i] = e
          BY <2>5, <3>1, TimesCounts
        <4>4. e = d => y = r
          BY <2>1, <3>1, <4>1, <4>2, Zenon
        <4>5. e # d => y = 0
          BY <2>5, <3>2, <4>1, <4>3
        <4> QED
          BY <4>1, <4>4, <4>5
      <3>6. z = IF e <= n + 1 THEN r ELSE 0
        BY <3>2, <3>3, <3>4, <3>5 DEF E
      <3> QED
        BY <3>1, <3>6, Zenon
    <2>13. Good(n + 1, u)
      BY <2>7, <2>10, <2>11, <2>12
    <2> QED
      BY <2>1, <2>13
  <1>4. MaxEvents \in T
    <2> HIDE DEF T
    <2> QED
      BY <1>2, <1>3, NumberInduction, HubAssumption
  <1>5. Good(MaxEvents, f[MaxEvents])
    BY <1>4, HubAssumption
  <1> QED
    BY <1>1, <1>5 DEF E

(* The tab's events with buffered ones merged in.                          *)
Ascends(s) == \A i, j \in 1 .. Len(s) : i < j => s[i] < s[j]

LEMMA Members ==
  ASSUME NEW S, NEW s \in Seq(S)
  PROVE  \A e : e \in ToSet(s) <=> \E i \in 1 .. Len(s) : s[i] = e
  <1>1. DOMAIN s = 1 .. Len(s)
    BY LenProperties
  <1> QED
    BY <1>1 DEF ToSet

LEMMA MergeShows ==
  ASSUME shown \in Seq(E), NEW events \in Seq(E), Ascends(events)
  PROVE  /\ Merge(events) \in Seq(E)
         /\ ToSet(Merge(events)) = ToSet(shown) \cup ToSet(events)
         /\ \A e \in E : Times(Merge(events), e) =
                           IF e \in ToSet(shown) THEN Times(shown, e) ELSE Times(events, e)
         /\ Merge(events) = shown \/ Sorted(Merge(events))
  <1>1. PICK new, fresh, m : /\ new = E \ ToSet(shown)
                             /\ fresh = Filter(events, new)
                             /\ m = Merge(events)
    OBVIOUS
  <1>2. m = IF fresh = << >> THEN shown ELSE Ascending(shown \o fresh)
    BY <1>1 DEF Merge, E
  <1>3. fresh \in Seq(E)
    BY <1>1, FilterType
  <1>4. ASSUME NEW e \in E
        PROVE  Times(fresh, e) = IF e \in ToSet(shown) THEN 0 ELSE Times(events, e)
    <2>1. CASE e \in ToSet(shown)
      <3>1. \A j \in 1 .. Len(fresh) : fresh[j] \in new
        BY <1>1, FilterType
      <3>2. PICK n : n = Times(fresh, e)
        OBVIOUS
      <3>3. n \in Nat /\ (n > 0 <=> \E i \in 1 .. Len(fresh) : fresh[i] = e)
        BY <1>3, <3>2, TimesCounts
      <3>4. \A i \in 1 .. Len(fresh) : fresh[i] # e
        BY <1>1, <2>1, <3>1
      <3>5. n = 0
        BY <3>3, <3>4
      <3> QED
        BY <2>1, <3>2, <3>5
    <2>2. CASE e \notin ToSet(shown)
      <3>1. e \in new
        BY <1>1, <2>2
      <3>2. Times(fresh, e) = Times(events, e)
        BY <1>1, <3>1, TimesKept
      <3> QED
        BY <2>2, <3>2
    <2> QED
      BY <2>1, <2>2
  <1>5. PICK all : all = shown \o fresh
    OBVIOUS
  <1>6. all \in Seq(E)
    BY <1>3, <1>5, ConcatProperties
  <1>7. /\ m \in Seq(E)
        /\ m = shown \/ Sorted(m)
        /\ \A e \in E : Times(m, e) = Times(shown, e) + Times(fresh, e)
    <2>1. ASSUME NEW e \in E PROVE Times(all, e) = Times(shown, e) + Times(fresh, e)
      <3>1. Times(shown \o fresh, e) = Times(shown, e) + Times(fresh, e)
        BY <1>3, TimesConcat
      <3> QED
        BY <1>5, <3>1, Zenon
    <2>2. CASE fresh = << >>
      <3>1. m = shown
        BY <1>2, <2>2
      <3>2. ASSUME NEW e \in E PROVE Times(shown, e) = Times(shown, e) + Times(fresh, e)
        <4>1. Times(fresh, e) = 0 /\ Times(shown, e) \in Nat
          BY <2>2, TimesEmpty, TimesCounts
        <4> QED
          BY <4>1
      <3> QED
        BY <3>1, <3>2
    <2>3. CASE fresh # << >>
      <3>1. m = Ascending(all)
        BY <1>2, <1>5, <2>3
      <3>2. m \in Seq(E) /\ Sorted(m) /\ \A e \in E : Times(m, e) = Times(all, e)
        BY <1>6, <3>1, AscendingSorts
      <3> QED
        BY <2>1, <3>2
    <2> QED
      BY <2>2, <2>3
  <1>8. \A s \in Seq(E), e \in E : Times(s, e) \in Nat /\ (e \in ToSet(s) <=> Times(s, e) > 0)
    BY TimesCounts, Members
  <1>9. ASSUME NEW e \in E
        PROVE  Times(m, e) = IF e \in ToSet(shown) THEN Times(shown, e) ELSE Times(events, e)
    <2>1. PICK a, b, c, d : /\ a = Times(shown, e) /\ b = Times(fresh, e)
                            /\ c = Times(events, e) /\ d = Times(m, e)
      OBVIOUS
    <2>2. a \in Nat /\ c \in Nat /\ (e \in ToSet(shown) <=> a > 0)
      BY <1>8, <2>1
    <2>3. d = a + b /\ b = IF e \in ToSet(shown) THEN 0 ELSE c
      BY <1>4, <1>7, <2>1
    <2>4. d = IF e \in ToSet(shown) THEN a ELSE c
      BY <2>2, <2>3
    <2> QED
      BY <2>1, <2>4, Zenon
  <1>10. ToSet(m) = ToSet(shown) \cup ToSet(events)
    <2>1. ToSet(m) \subseteq E /\ ToSet(shown) \subseteq E /\ ToSet(events) \subseteq E
      BY <1>7, Members, ElementOfSeq
    <2>2. ASSUME NEW e \in E PROVE e \in ToSet(m) <=> e \in ToSet(shown) \/ e \in ToSet(events)
      <3>1. /\ e \in ToSet(m) <=> Times(m, e) > 0
            /\ e \in ToSet(shown) <=> Times(shown, e) > 0
            /\ e \in ToSet(events) <=> Times(events, e) > 0
        BY <1>7, <1>8
      <3> QED
        BY <1>9, <3>1
    <2> QED
      BY <2>1, <2>2
  <1> QED
    BY <1>1, <1>7, <1>9, <1>10, Zenon

-----------------------------------------------------------------------------
(* A client's queue and a connection's wire.                               *)

Event(msg) == msg.events[1]

(* The live events among the messages on a wire.                           *)
Sent(w) == { Event(w[i]) : i \in { j \in 1 .. Len(w) : w[j].type = "event" } }

Greeting(w) == w # << >> /\ w[1].type = "connected"

(* Buffered events come first, and a live message holds one event.         *)
Wired(w) ==
  \A i \in 1 .. Len(w) :
    /\ w[i].type = "connected" => i = 1
    /\ w[i].type = "event" => Len(w[i].events) = 1

SentAscends(w) ==
  \A i, j \in 1 .. Len(w) :
    i < j /\ w[i].type = "event" /\ w[j].type = "event" => Event(w[i]) < Event(w[j])

LEMMA QueuePush ==
  ASSUME NEW q \in Seq(E), NEW e \in E, NEW p, p = Append(q, e)
  PROVE  /\ p \in Seq(E) /\ Len(p) = Len(q) + 1
         /\ ToSet(p) = ToSet(q) \cup {e}
         /\ Ascends(q) /\ (\A d \in ToSet(q) : d < e) => Ascends(p)
  <1>1. PICK n : n = Len(q)
    OBVIOUS
  <1>2. /\ p \in Seq(E) /\ n \in Nat /\ Len(p) = n + 1
        /\ p[n + 1] = e /\ \A i \in 1 .. n : p[i] = q[i]
    BY <1>1, AppendProperties, LenProperties
  <1>3. /\ \A d : d \in ToSet(p) <=> \E i \in 1 .. n + 1 : p[i] = d
        /\ \A d : d \in ToSet(q) <=> \E i \in 1 .. n : q[i] = d
    <2>1. \A d : d \in ToSet(p) <=> \E i \in 1 .. Len(p) : p[i] = d
      BY <1>2, Members
    <2>2. \A d : d \in ToSet(q) <=> \E i \in 1 .. Len(q) : q[i] = d
      BY Members
    <2> QED
      BY <1>1, <1>2, <2>1, <2>2, Zenon
  <1>4. ToSet(p) = ToSet(q) \cup {e}
    <2>1. \A i \in 1 .. n + 1 : i \in 1 .. n \/ i = n + 1
      BY <1>2
    <2>2. n + 1 \in 1 .. n + 1 /\ \A i \in 1 .. n : i \in 1 .. n + 1
      BY <1>2
    <2> QED
      BY <1>2, <1>3, <2>1, <2>2
  <1>5. ASSUME Ascends(q), \A d \in ToSet(q) : d < e PROVE Ascends(p)
    <2>1. \A i \in 1 .. n : q[i] < e
      BY <1>3, <1>5
    <2>2. \A i, j \in 1 .. n : i < j => q[i] < q[j]
      BY <1>1, <1>5 DEF Ascends
    <2> SUFFICES ASSUME NEW i \in 1 .. n + 1, NEW j \in 1 .. n + 1, i < j PROVE p[i] < p[j]
      BY <1>2 DEF Ascends
    <2>3. i \in 1 .. n
      BY <1>2
    <2>4. CASE j \in 1 .. n
      BY <1>2, <2>2, <2>3, <2>4
    <2>5. CASE j = n + 1
      BY <1>2, <2>1, <2>3, <2>5
    <2> QED
      BY <1>2, <2>4, <2>5
  <1> QED
    BY <1>1, <1>2, <1>4, <1>5

LEMMA QueuePop ==
  ASSUME NEW q \in Seq(E), q # << >>, Ascends(q), NEW h, h = Head(q), NEW t, t = Tail(q)
  PROVE  /\ t \in Seq(E) /\ h \in E /\ Len(t) = Len(q) - 1
         /\ ToSet(q) = {h} \cup ToSet(t)
         /\ Ascends(t)
         /\ \A d \in ToSet(t) : h < d
  <1>1. PICK n : n = Len(q)
    OBVIOUS
  <1>2. /\ t \in Seq(E) /\ h = q[1] /\ n \in Nat /\ n > 0 /\ Len(t) = n - 1
        /\ \A i \in 1 .. n - 1 : t[i] = q[i + 1]
    BY <1>1, HeadTailProperties, LenProperties, EmptySeq
  <1>3. \A i \in 1 .. n : q[i] \in E
    BY <1>1, ElementOfSeq
  <1>4. \A i, j \in 1 .. n : i < j => q[i] < q[j]
    BY <1>1 DEF Ascends
  <1>5. /\ \A d : d \in ToSet(t) <=> \E i \in 1 .. n - 1 : t[i] = d
        /\ \A d : d \in ToSet(q) <=> \E i \in 1 .. n : q[i] = d
    <2>1. \A d : d \in ToSet(t) <=> \E i \in 1 .. Len(t) : t[i] = d
      <3>1. t \in Seq(E)
        BY <1>2
      <3> QED
        BY <3>1, Members
    <2>2. \A d : d \in ToSet(q) <=> \E i \in 1 .. Len(q) : q[i] = d
      BY Members
    <2> QED
      BY <1>1, <1>2, <2>1, <2>2, Zenon
  <1>6. ToSet(q) = {h} \cup ToSet(t)
    <2>1. ASSUME NEW d \in ToSet(q) PROVE d = h \/ d \in ToSet(t)
      <3>1. PICK i \in 1 .. n : q[i] = d
        BY <1>5
      <3>2. CASE i = 1
        BY <1>2, <3>1, <3>2
      <3>3. CASE i # 1
        <4>1. i - 1 \in 1 .. n - 1 /\ t[i - 1] = d
          BY <1>2, <3>1, <3>3
        <4> QED
          BY <1>5, <4>1
      <3> QED
        BY <3>2, <3>3
    <2>2. h \in ToSet(q)
      BY <1>2, <1>5
    <2>3. ASSUME NEW d \in ToSet(t) PROVE d \in ToSet(q)
      <3>1. PICK i \in 1 .. n - 1 : t[i] = d
        BY <1>5
      <3>2. i + 1 \in 1 .. n /\ q[i + 1] = d
        BY <1>2, <3>1
      <3> QED
        BY <1>5, <3>2
    <2> QED
      BY <2>1, <2>2, <2>3
  <1>7. Ascends(t)
    <2> SUFFICES ASSUME NEW i \in 1 .. n - 1, NEW j \in 1 .. n - 1, i < j PROVE t[i] < t[j]
      BY <1>2 DEF Ascends
    <2>1. i + 1 \in 1 .. n /\ j + 1 \in 1 .. n /\ i + 1 < j + 1 /\ t[i] = q[i + 1] /\ t[j] = q[j + 1]
      BY <1>2
    <2> QED
      BY <1>4, <2>1
  <1>8. ASSUME NEW d \in ToSet(t) PROVE h < d
    <2>1. PICK i \in 1 .. n - 1 : t[i] = d
      BY <1>5
    <2>2. i + 1 \in 1 .. n /\ 1 \in 1 .. n /\ 1 < i + 1 /\ q[i + 1] = d
      BY <1>2, <2>1
    <2> QED
      BY <1>2, <1>4, <2>2
  <1>9. h \in E
    BY <1>2, <1>3
  <1> QED
    BY <1>1, <1>2, <1>6, <1>7, <1>8, <1>9

LEMMA SentMembers ==
  ASSUME NEW w
  PROVE  \A e : e \in Sent(w) <=> \E i \in 1 .. Len(w) : w[i].type = "event" /\ Event(w[i]) = e
  BY DEF Sent

LEMMA Messages ==
  /\ \A e \in E : Live(e) \in Message
  /\ \A events \in Seq(E) : Connected(events) \in Message
  /\ \A msg \in Message : msg.type \in {"connected", "event"} /\ msg.events \in Seq(E)
  <1>1. ASSUME NEW e \in E PROVE Live(e) \in Message
    <2>1. PICK one : one = <<e>>
      OBVIOUS
    <2>2. one \in Seq(E)
      BY <2>1
    <2> QED
      BY <2>1, <2>2 DEF Live, Message, E
  <1>2. \A events \in Seq(E) : Connected(events) \in Message
    BY DEF Connected, Message, E
  <1> QED
    BY <1>1, <1>2 DEF Message, E

LEMMA LiveIs ==
  ASSUME NEW e
  PROVE  /\ Live(e).type = "event" /\ Len(Live(e).events) = 1 /\ Event(Live(e)) = e
  <1>1. PICK one : one = <<e>>
    OBVIOUS
  <1>2. Len(one) = 1 /\ one[1] = e
    BY <1>1
  <1> QED
    BY <1>1, <1>2 DEF Live, Event

LEMMA WirePush ==
  ASSUME NEW w \in Seq(Message), NEW e \in E, NEW v, v = Append(w, Live(e)), Wired(w)
  PROVE  /\ v \in Seq(Message)
         /\ Sent(v) = Sent(w) \cup {e}
         /\ Wired(v)
         /\ Greeting(v) <=> Greeting(w)
         /\ Greeting(w) => v[1] = w[1]
         /\ SentAscends(w) /\ (\A d \in Sent(w) : d < e) => SentAscends(v)
  <1>1. PICK n, msg : n = Len(w) /\ msg = Live(e)
    OBVIOUS
  <1>2. msg \in Message /\ msg.type = "event" /\ Len(msg.events) = 1 /\ Event(msg) = e
    BY <1>1, Messages, LiveIs
  <1>3. v = Append(w, msg)
    BY <1>1
  <1>4. /\ v \in Seq(Message) /\ n \in Nat /\ Len(v) = n + 1
        /\ v[n + 1] = msg /\ \A i \in 1 .. n : v[i] = w[i]
    BY <1>1, <1>2, <1>3, AppendProperties, LenProperties
  <1>5. /\ n + 1 \in 1 .. n + 1
        /\ \A i \in 1 .. n : i \in 1 .. n + 1
        /\ \A i \in 1 .. n + 1 : i \in 1 .. n \/ i = n + 1
    BY <1>4
  <1>6. /\ \A d : d \in Sent(v) <=> \E i \in 1 .. n + 1 : v[i].type = "event" /\ Event(v[i]) = d
        /\ \A d : d \in Sent(w) <=> \E i \in 1 .. n : w[i].type = "event" /\ Event(w[i]) = d
    BY <1>1, <1>4, SentMembers
  <1>7. Sent(v) = Sent(w) \cup {e}
    <2>1. ASSUME NEW d \in Sent(v) PROVE d \in Sent(w) \/ d = e
      <3>1. PICK i \in 1 .. n + 1 : v[i].type = "event" /\ Event(v[i]) = d
        BY <1>6
      <3> QED
        BY <1>2, <1>4, <1>5, <1>6, <3>1
    <2>2. ASSUME NEW d \in Sent(w) PROVE d \in Sent(v)
      <3>1. PICK i \in 1 .. n : w[i].type = "event" /\ Event(w[i]) = d
        BY <1>6
      <3> QED
        BY <1>4, <1>5, <1>6, <3>1
    <2>3. e \in Sent(v)
      BY <1>2, <1>4, <1>5, <1>6
    <2> QED
      BY <2>1, <2>2, <2>3
  <1>8. Wired(v)
    <2> SUFFICES ASSUME NEW i \in 1 .. n + 1
                 PROVE  /\ v[i].type = "connected" => i = 1
                        /\ v[i].type = "event" => Len(v[i].events) = 1
      BY <1>4 DEF Wired
    <2>1. CASE i \in 1 .. n
      <3>1. v[i] = w[i]
        BY <1>4, <2>1
      <3>2. /\ w[i].type = "connected" => i = 1
            /\ w[i].type = "event" => Len(w[i].events) = 1
        BY <1>1, <2>1, Zenon DEF Wired
      <3> QED
        BY <3>1, <3>2, Zenon
    <2>2. CASE i = n + 1
      BY <1>2, <1>4, <2>2
    <2> QED
      BY <1>5, <2>1, <2>2
  <1>9. (Greeting(v) <=> Greeting(w)) /\ (Greeting(w) => v[1] = w[1])
    <2>1. v # << >>
      BY <1>4, EmptySeq
    <2>2. CASE w = << >>
      <3>1. n = 0
        BY <1>1, <2>2, EmptySeq
      <3>2. v[1] = msg
        BY <1>4, <3>1
      <3> QED
        BY <1>2, <2>2, <3>2 DEF Greeting
    <2>3. CASE w # << >>
      <3>1. 1 \in 1 .. n
        BY <1>1, <1>4, <2>3, EmptySeq
      <3>2. v[1] = w[1]
        BY <1>4, <3>1
      <3> QED
        BY <2>1, <2>3, <3>2 DEF Greeting
    <2> QED
      BY <2>2, <2>3
  <1>10. ASSUME SentAscends(w), \A d \in Sent(w) : d < e PROVE SentAscends(v)
    <2> SUFFICES ASSUME NEW i \in 1 .. n + 1, NEW j \in 1 .. n + 1, i < j,
                        v[i].type = "event", v[j].type = "event"
                 PROVE  Event(v[i]) < Event(v[j])
      BY <1>4 DEF SentAscends
    <2>1. i \in 1 .. n /\ v[i] = w[i] /\ w[i].type = "event"
      BY <1>4
    <2>2. CASE j \in 1 .. n
      <3>1. v[j] = w[j] /\ w[j].type = "event"
        BY <1>4, <2>2
      <3> QED
        BY <1>1, <1>10, <2>1, <2>2, <3>1 DEF SentAscends
    <2>3. CASE j = n + 1
      <3>1. Event(w[i]) \in Sent(w)
        BY <1>6, <2>1
      <3> QED
        BY <1>2, <1>4, <1>10, <2>1, <2>3, <3>1
    <2> QED
      BY <1>5, <2>2, <2>3
  <1> QED
    BY <1>4, <1>7, <1>8, <1>9, <1>10

LEMMA WireGreet ==
  ASSUME NEW events \in Seq(E), NEW w, w = << >>, NEW v, v = Append(w, Connected(events))
  PROVE  /\ v \in Seq(Message)
         /\ Sent(v) = {}
         /\ Wired(v) /\ SentAscends(v)
         /\ Greeting(v) /\ v[1].events = events
  <1>1. PICK msg : msg = Connected(events)
    OBVIOUS
  <1>2. msg \in Message /\ msg.type = "connected" /\ msg.events = events
    BY <1>1, Messages DEF Connected
  <1>3. v \in Seq(Message) /\ Len(v) = 1 /\ v[1] = msg
    <2>1. w \in Seq(Message) /\ Len(w) = 0
      BY EmptySeq
    <2> QED
      BY <1>1, <1>2, <2>1, AppendProperties
  <1>4. \A i \in 1 .. Len(v) : i = 1
    BY <1>3
  <1>5. Sent(v) = {}
    BY <1>2, <1>3, <1>4, SentMembers
  <1>6. v # << >>
    BY <1>3, EmptySeq
  <1> QED
    BY <1>2, <1>3, <1>4, <1>5, <1>6 DEF Wired, SentAscends, Greeting

LEMMA WirePop ==
  ASSUME NEW w \in Seq(Message), w # << >>, Wired(w), SentAscends(w),
         NEW h, h = Head(w), NEW t, t = Tail(w)
  PROVE  /\ t \in Seq(Message) /\ h \in Message /\ h = w[1]
         /\ Wired(t) /\ SentAscends(t) /\ ~ Greeting(t)
         /\ h.type = "connected" => Sent(w) = Sent(t)
         /\ h.type = "event" =>
              /\ Sent(w) = {Event(h)} \cup Sent(t)
              /\ \A d \in Sent(t) : Event(h) < d
              /\ Event(h) \in E /\ h.events = << Event(h) >>
  <1>1. PICK n : n = Len(w)
    OBVIOUS
  <1>2. /\ t \in Seq(Message) /\ h = w[1] /\ n \in Nat /\ n > 0 /\ Len(t) = n - 1
        /\ \A i \in 1 .. n - 1 : t[i] = w[i + 1]
    BY <1>1, HeadTailProperties, LenProperties, EmptySeq
  <1>3. h \in Message
    BY <1>1, <1>2, ElementOfSeq
  <1>4. \A i \in 1 .. n - 1 : i + 1 \in 1 .. n /\ i + 1 # 1 /\ t[i] = w[i + 1]
    BY <1>2
  <1>5. ASSUME NEW i \in 1 .. n - 1 PROVE t[i].type # "connected"
    <2>1. PICK a : a = i + 1
      OBVIOUS
    <2>2. a \in 1 .. Len(w) /\ a # 1 /\ t[i] = w[a]
      BY <1>1, <1>4, <2>1
    <2>3. w[a].type # "connected"
      BY <2>2, Zenon DEF Wired
    <2> QED
      BY <2>2, <2>3
  <1>6. /\ \A d : d \in Sent(t) <=> \E i \in 1 .. n - 1 : t[i].type = "event" /\ Event(t[i]) = d
        /\ \A d : d \in Sent(w) <=> \E i \in 1 .. n : w[i].type = "event" /\ Event(w[i]) = d
    BY <1>1, <1>2, SentMembers
  <1>7. Wired(t)
    BY <1>1, <1>2, <1>4, <1>5 DEF Wired
  <1>8. SentAscends(t)
    <2> SUFFICES ASSUME NEW i \in 1 .. n - 1, NEW j \in 1 .. n - 1, i < j,
                        t[i].type = "event", t[j].type = "event"
                 PROVE  Event(t[i]) < Event(t[j])
      BY <1>2 DEF SentAscends
    <2>1. PICK a, b : a = i + 1 /\ b = j + 1
      OBVIOUS
    <2>2. a \in 1 .. n /\ b \in 1 .. n /\ a < b /\ t[i] = w[a] /\ t[j] = w[b]
      <3>1. a \in 1 .. n /\ t[i] = w[a]
        BY <1>4, <2>1
      <3>2. b \in 1 .. n /\ t[j] = w[b]
        BY <1>4, <2>1
      <3>3. a < b
        BY <2>1
      <3> QED
        BY <3>1, <3>2, <3>3
    <2>3. Event(w[a]) < Event(w[b])
      BY <1>1, <2>2 DEF SentAscends
    <2> QED
      BY <2>2, <2>3
  <1>9. ~ Greeting(t)
    <2> SUFFICES ASSUME t # << >> PROVE t[1].type # "connected"
      BY DEF Greeting
    <2>1. 1 \in 1 .. n - 1
      BY <1>2, EmptySeq
    <2> QED
      BY <1>5, <2>1
  <1>10. \A d \in Sent(t) : d \in Sent(w)
    <2> SUFFICES ASSUME NEW d \in Sent(t) PROVE d \in Sent(w)
      OBVIOUS
    <2>1. PICK i \in 1 .. n - 1 : t[i].type = "event" /\ Event(t[i]) = d
      BY <1>6
    <2>2. PICK a \in 1 .. n : a = i + 1 /\ t[i] = w[a]
      BY <1>4
    <2> QED
      BY <1>6, <2>1, <2>2
  <1>11. ASSUME NEW d \in Sent(w) PROVE d \in Sent(t) \/ (h.type = "event" /\ d = Event(h))
    <2>1. PICK i \in 1 .. n : w[i].type = "event" /\ Event(w[i]) = d
      BY <1>6
    <2>2. CASE i = 1
      BY <1>2, <2>1, <2>2
    <2>3. CASE i # 1
      <3>1. PICK a \in 1 .. n - 1 : a = i - 1 /\ t[a] = w[i]
        BY <1>2, <2>3
      <3> QED
        BY <1>6, <2>1, <3>1
    <2> QED
      BY <2>2, <2>3
  <1>12. h.type = "connected" => Sent(w) = Sent(t)
    BY <1>10, <1>11
  <1>13. ASSUME h.type = "event"
         PROVE  /\ Sent(w) = {Event(h)} \cup Sent(t)
                /\ \A d \in Sent(t) : Event(h) < d
                /\ Event(h) \in E /\ h.events = << Event(h) >>
    <2>1. 1 \in 1 .. n
      BY <1>2
    <2>2. Event(h) \in Sent(w)
      BY <1>2, <1>6, <1>13, <2>1
    <2>3. ASSUME NEW d \in Sent(t) PROVE Event(h) < d
      <3>1. PICK i \in 1 .. n - 1 : t[i].type = "event" /\ Event(t[i]) = d
        BY <1>6
      <3>2. PICK a \in 1 .. n : a = i + 1 /\ t[i] = w[a]
        BY <1>4
      <3>3. 1 < a
        BY <3>2
      <3> QED
        BY <1>1, <1>2, <1>13, <2>1, <3>1, <3>2, <3>3 DEF SentAscends
    <2>4. PICK s : s = h.events
      OBVIOUS
    <2>5. s \in Seq(E) /\ Len(s) = 1 /\ Event(h) = s[1]
      BY <1>1, <1>2, <1>3, <1>13, <2>1, <2>4, Messages DEF Wired, Event
    <2>6. Event(h) \in E /\ s = << Event(h) >>
      <3>1. PICK e : e = s[1]
        OBVIOUS
      <3>2. e \in E
        <4>1. 1 \in 1 .. Len(s)
          BY <2>5
        <4> QED
          BY <2>5, <3>1, <4>1, ElementOfSeq
      <3>3. s = <<e>>
        BY <2>5, <3>1
      <3> QED
        BY <2>5, <3>1, <3>2, <3>3
    <2> QED
      BY <1>10, <1>11, <2>2, <2>3, <2>4, <2>6
  <1> QED
    BY <1>2, <1>3, <1>7, <1>8, <1>9, <1>12, <1>13

LEMMA SentType ==
  ASSUME NEW w \in Seq(Message), Wired(w)
  PROVE  Sent(w) \subseteq E
  <1> SUFFICES ASSUME NEW e \in Sent(w) PROVE e \in E
    OBVIOUS
  <1>1. PICK i \in 1 .. Len(w) : w[i].type = "event" /\ Event(w[i]) = e
    BY SentMembers
  <1>2. PICK s : s = w[i].events
    OBVIOUS
  <1>3. w[i] \in Message
    BY <1>1, ElementOfSeq
  <1>4. s \in Seq(E)
    BY <1>2, <1>3, Messages
  <1>5. Len(s) = 1
    BY <1>1, <1>2, Zenon DEF Wired
  <1>6. 1 \in 1 .. Len(s) /\ e = s[1]
    BY <1>1, <1>2, <1>5 DEF Event
  <1> QED
    BY <1>4, <1>6, ElementOfSeq

LEMMA NothingIn ==
  ASSUME NEW s, s = << >>
  PROVE  Len(s) = 0 /\ ToSet(s) = {} /\ Sent(s) = {} /\ Wired(s) /\ Ascends(s) /\ SentAscends(s)
  <1>1. Len(s) = 0 /\ s \in Seq({})
    BY EmptySeq
  <1>2. 1 .. Len(s) = {}
    BY <1>1
  <1>3. ToSet(s) = {}
    BY <1>1, <1>2, Members
  <1>4. Sent(s) = {}
    BY <1>2, SentMembers
  <1> QED
    BY <1>1, <1>2, <1>3, <1>4 DEF Wired, Ascends, SentAscends

-----------------------------------------------------------------------------
(* The inductive invariant.                                                *)

(* The live events of a connection that the tab has not received yet: on   *)
(* the wire, in the queue, or about to be sent by the broadcast.           *)
Coming(c) == Sent(wire[c]) \cup ToSet(queue[c]) \cup (IF c \in sending THEN {seq} ELSE {})

(* Its buffered events have not reached the tab yet.                       *)
Awaiting(c) == stage[c] \in {"accepted", "joined"} \/ Greeting(wire[c])

(* A connection has nothing before it is in the room.                      *)
Stages(c) ==
  /\ stage[c] \in {"none", "accepted"} => queue[c] = << >> /\ c \notin room \cup sending
  /\ stage[c] \in {"none", "accepted", "joined"} => wire[c] = << >>
  /\ c > conn => stage[c] = "none"
  /\ Wired(wire[c])

(* Its live events come in the order of the run, each once.                *)
InOrder(c) ==
  /\ Ascends(queue[c]) /\ SentAscends(wire[c])
  /\ \A e \in Sent(wire[c]), d \in ToSet(queue[c]) : e < d
  /\ \A e \in Sent(wire[c]) \cup ToSet(queue[c]) : e <= seq /\ (c \in sending => e < seq)

(* A live event is among the events received before it, or after them all. *)
Follows(e, events) == e \in events \/ \A d \in events : d < e

(* The buffer ascends, and will do for a client that has joined: it has    *)
(* not expired and holds what is coming, unless it is full.                *)
Buffering ==
  /\ Ascends(buffer)
  /\ \A e \in ToSet(buffer) : e <= seq
  /\ sending # {} => seq > 0
  /\ \A c \in Conn : stage[c] = "joined" /\ Coming(c) # {} =>
       /\ ~ expired
       /\ Coming(c) \subseteq ToSet(buffer) \/ Len(buffer) = BufferCap
       /\ \A e \in Coming(c) : Follows(e, ToSet(buffer))

Greets(c) ==
  Greeting(wire[c]) =>
    /\ Ascends(wire[c][1].events)
    /\ \A e \in ToSet(wire[c][1].events) : e <= seq
    /\ \A e \in Coming(c) : Follows(e, ToSet(wire[c][1].events))

(* What the tab shows, and what of it is still coming: nothing as long as  *)
(* the buffered events are awaited; after that each event once at most.    *)
Showing ==
  /\ \A e \in ToSet(shown) : e <= seq
  /\ tab = "open" => conn \in Conn
  /\ conn \in Conn => \A e \in Coming(conn) :
       /\ Awaiting(conn) => \A d \in ToSet(shown) : d < e
       /\ ~ Awaiting(conn) => Follows(e, ToSet(shown)) /\ Times(shown, e) <= 1
  /\ \A e \in E : Times(shown, e) <= 2
  /\ OnlyRepeatsOutOfOrder

IInv ==
  /\ TypeOK
  /\ \A c \in Conn : Stages(c) /\ InOrder(c) /\ Greets(c)
  /\ Buffering
  /\ Showing

(* A connection no step touches, but that may be sent an event less.       *)
LEMMA Untouched ==
  ASSUME NEW c \in Conn, Stages(c), InOrder(c),
         wire'[c] = wire[c], queue'[c] = queue[c], stage'[c] = stage[c], seq' = seq,
         c > conn' => c > conn, c \in sending' => c \in sending, c \in room' => c \in room
  PROVE  /\ Stages(c)' /\ InOrder(c)'
         /\ Coming(c)' \subseteq Coming(c)
         /\ Awaiting(c)' <=> Awaiting(c)
  <1>1. Stages(c)'
    BY DEF Stages
  <1>2. InOrder(c)'
    BY DEF InOrder
  <1>3. Coming(c)' \subseteq Coming(c)
    BY DEF Coming
  <1>4. Awaiting(c)' <=> Awaiting(c)
    BY DEF Awaiting
  <1> QED
    BY <1>1, <1>2, <1>3, <1>4

(* Steps that add nothing to what is coming keep what depends on it.       *)
LEMMA KeepsGreets ==
  ASSUME NEW c \in Conn, Greets(c), seq' = seq, Coming(c)' \subseteq Coming(c),
         Greeting(wire'[c]) => Greeting(wire[c]) /\ wire'[c][1] = wire[c][1]
  PROVE  Greets(c)'
  <1> SUFFICES ASSUME Greeting(wire'[c]) PROVE Greets(c)'
    BY DEF Greets
  <1>1. wire'[c][1] = wire[c][1] /\ Greeting(wire[c])
    OBVIOUS
  <1> QED
    BY <1>1 DEF Greets

LEMMA KeepsBuffering ==
  ASSUME Buffering, seq' = seq, buffer' = buffer, sending' \subseteq sending,
         \A c \in Conn : Coming(c)' \subseteq Coming(c),
         \A c \in Conn : stage'[c] = "joined" /\ Coming(c)' # {} =>
                           stage[c] = "joined" /\ (expired' => expired)
  PROVE  Buffering'
  <1>1. ASSUME NEW c \in Conn, stage'[c] = "joined", Coming(c)' # {}
        PROVE  /\ ~ expired'
               /\ Coming(c)' \subseteq ToSet(buffer)' \/ Len(buffer)' = BufferCap
               /\ \A e \in Coming(c)' : Follows(e, ToSet(buffer)')
    <2>1. stage[c] = "joined" /\ (expired' => expired) /\ Coming(c) # {}
      BY <1>1
    <2>2. /\ ~ expired
          /\ Coming(c) \subseteq ToSet(buffer) \/ Len(buffer) = BufferCap
          /\ \A e \in Coming(c) : Follows(e, ToSet(buffer))
      BY <2>1 DEF Buffering
    <2> QED
      BY <2>1, <2>2
  <1>2. Ascends(buffer)' /\ \A e \in ToSet(buffer)' : e <= seq'
    BY DEF Buffering
  <1>3. sending' # {} => seq' > 0
    BY DEF Buffering
  <1> QED
    BY <1>1, <1>2, <1>3 DEF Buffering

LEMMA KeepsShowing ==
  ASSUME Showing, seq' = seq, shown' = shown, conn' = conn, tab' = "open" => tab = "open",
         conn \in Conn => /\ Coming(conn)' \subseteq Coming(conn)
                          /\ Coming(conn)' # {} => (Awaiting(conn)' <=> Awaiting(conn))
  PROVE  Showing'
  <1>1. ASSUME conn' \in Conn, NEW e \in Coming(conn)'
        PROVE  /\ Awaiting(conn)' => \A d \in ToSet(shown)' : d < e
               /\ ~ Awaiting(conn)' => Follows(e, ToSet(shown)') /\ Times(shown', e) <= 1
    <2>1. e \in Coming(conn) /\ (Awaiting(conn)' <=> Awaiting(conn)) /\ conn \in Conn
      BY <1>1
    <2>2. /\ Awaiting(conn) => \A d \in ToSet(shown) : d < e
          /\ ~ Awaiting(conn) => Follows(e, ToSet(shown)) /\ Times(shown, e) <= 1
      BY <2>1 DEF Showing
    <2> QED
      BY <2>1, <2>2
  <1>2. OnlyRepeatsOutOfOrder'
    BY DEF Showing, OnlyRepeatsOutOfOrder
  <1>3. (\A e \in ToSet(shown)' : e <= seq') /\ (\A e \in E : Times(shown', e) <= 2)
    BY DEF Showing
  <1>4. tab' = "open" => conn' \in Conn
    BY DEF Showing
  <1> QED
    BY <1>1, <1>2, <1>3, <1>4 DEF Showing

LEMMA Parts ==
  ASSUME TypeOK, NEW c \in Conn
  PROVE  /\ queue[c] \in Seq(E) /\ wire[c] \in Seq(Message)
         /\ buffer \in Seq(E) /\ shown \in Seq(E) /\ seq \in Nat
         /\ DOMAIN queue = Conn /\ DOMAIN wire = Conn /\ DOMAIN stage = Conn
  BY HubAssumption DEF TypeOK, E

-----------------------------------------------------------------------------
(* One lemma per action.                                                   *)

LEMMA InitIInv == Init => IInv
  <1> SUFFICES ASSUME Init PROVE IInv
    OBVIOUS
  <1>1. PICK none : none = << >>
    OBVIOUS
  <1>2. none \in Seq(E) /\ none \in Seq(Message) /\ Len(none) = 0
    BY <1>1, EmptySeq
  <1>3. buffer = none /\ shown = none /\ \A c \in Conn : queue[c] = none /\ wire[c] = none
    BY <1>1 DEF Init
  <1>4. TypeOK
    <2>1. queue \in [Conn -> Seq(E)] /\ wire \in [Conn -> Seq(Message)]
      BY <1>1, <1>2 DEF Init
    <2>2. buffer \in Seq(E) /\ shown \in Seq(E)
      BY <1>2, <1>3
    <2>3. Len(buffer) <= BufferCap /\ \A c \in Conn : Len(queue[c]) <= SendCap
      BY <1>2, <1>3, HubAssumption
    <2>4. /\ seq \in 0 .. MaxEvents /\ conn \in 0 .. MaxConns /\ retries \in 0 .. MaxRetries
          /\ sending \subseteq Conn /\ room \subseteq Conn /\ expired \in BOOLEAN
          /\ tab \in {"connecting", "open", "failed", "left"}
      <3>1. seq = 0 /\ conn = 0 /\ retries = 0
        BY DEF Init
      <3>2. sending = {} /\ room = {} /\ expired = FALSE /\ tab = "connecting"
        BY DEF Init
      <3>3. sending \subseteq Conn /\ room \subseteq Conn /\ tab \in {"connecting", "open", "failed", "left"}
        BY <3>2
      <3>4. expired \in BOOLEAN
        BY <3>2, Zenon
      <3> QED
        BY <3>1, <3>3, <3>4, HubAssumption
    <2>5. stage \in [Conn -> {"none", "accepted", "joined", "pumping", "done"}]
      BY DEF Init
    <2> QED
      BY <2>1, <2>2, <2>3, <2>4, <2>5 DEF TypeOK, E
  <1>5. ToSet(none) = {} /\ Sent(none) = {} /\ Wired(none) /\ Ascends(none) /\ SentAscends(none)
    BY <1>1, NothingIn
  <1>6. ASSUME NEW c \in Conn PROVE Stages(c) /\ InOrder(c) /\ Greets(c) /\ Coming(c) = {}
    BY <1>1, <1>3, <1>5 DEF Init, Stages, InOrder, Greets, Greeting, Coming
  <1>7. Buffering
    BY <1>3, <1>5, <1>6 DEF Init, Buffering
  <1>8. Showing
    <2>1. \A e \in E : Times(shown, e) <= 2
      BY <1>1, <1>3, TimesEmpty
    <2>2. DOMAIN shown = {}
      BY <1>2, <1>3
    <2> QED
      BY <1>3, <1>5, <2>1, <2>2 DEF Init, Showing, OnlyRepeatsOutOfOrder, Conn
  <1> QED
    BY <1>4, <1>6, <1>7, <1>8 DEF IInv

LEMMA SendToStep ==
  ASSUME IInv, NEW c \in Conn, SendTo(c)
  PROVE  IInv'
  <1>1. /\ TypeOK /\ Buffering /\ Showing
        /\ \A d \in Conn : Stages(d) /\ InOrder(d) /\ Greets(d)
    BY DEF IInv
  <1>2. /\ c \in sending /\ sending' = sending \ {c}
        /\ seq' = seq /\ buffer' = buffer /\ expired' = expired /\ room' = room
        /\ stage' = stage /\ wire' = wire /\ shown' = shown /\ conn' = conn /\ tab' = tab /\ retries' = retries
    BY DEF SendTo, hub, viewer
  <1>3. PICK q, p : q = queue[c] /\ p = Append(q, seq)
    OBVIOUS
  <1>4. seq \in E /\ q \in Seq(E) /\ queue \in [Conn -> Seq(E)] /\ \A d \in Conn : Len(queue[d]) <= SendCap
    BY <1>1, <1>2, <1>3, HubAssumption DEF TypeOK, E, Buffering
  <1>5. /\ p \in Seq(E) /\ Len(p) = Len(q) + 1 /\ ToSet(p) = ToSet(q) \cup {seq}
        /\ Ascends(q) /\ (\A d \in ToSet(q) : d < seq) => Ascends(p)
    BY <1>3, <1>4, QueuePush
  <1>6. \/ Len(q) < SendCap /\ queue' = [queue EXCEPT ![c] = p]
        \/ queue' = queue
    BY <1>3 DEF SendTo, Push
  <1>7. PICK r : /\ queue' = [queue EXCEPT ![c] = r] /\ (r = q \/ r = p)
                 /\ r \in Seq(E) /\ Len(r) <= SendCap
    <2>1. Len(q) \in Nat /\ SendCap \in Nat /\ Len(q) <= SendCap
      BY <1>3, <1>4, HubAssumption, LenProperties
    <2>2. CASE queue' = queue
      <3>1. queue' = [queue EXCEPT ![c] = q]
        BY <1>3, <1>4, <2>2
      <3> QED
        BY <1>4, <2>1, <3>1
    <2>3. CASE Len(q) < SendCap /\ queue' = [queue EXCEPT ![c] = p]
      <3>1. Len(p) <= SendCap
        BY <1>5, <2>1, <2>3
      <3> QED
        BY <1>5, <2>3, <3>1
    <2> QED
      BY <1>6, <2>2, <2>3
  <1>8. queue'[c] = r /\ \A d \in Conn : d # c => queue'[d] = queue[d]
    BY <1>4, <1>7
  <1>9. TypeOK'
    <2>1. queue' \in [Conn -> Seq(E)] /\ \A d \in Conn : Len(queue'[d]) <= SendCap
      BY <1>4, <1>7, <1>8
    <2> QED
      BY <1>1, <1>2, <2>1 DEF TypeOK, E
  <1>10. /\ ToSet(r) \subseteq ToSet(q) \cup {seq}
         /\ Ascends(q) /\ (\A d \in ToSet(q) : d < seq) => Ascends(r)
    BY <1>5, <1>7
  <1>11. Stages(c)' /\ InOrder(c)' /\ Coming(c)' \subseteq Coming(c)
    <2>1. Stages(c)'
      BY <1>1, <1>2 DEF Stages
    <2>2. InOrder(c)'
      <3>1. PICK w : w = wire[c] /\ wire'[c] = w
        BY <1>2
      <3>2. /\ Ascends(q) /\ SentAscends(w)
            /\ \A e \in Sent(w), d \in ToSet(q) : e < d
            /\ \A e \in Sent(w) \cup ToSet(q) : e <= seq /\ e < seq
        BY <1>1, <1>2, <1>3, <3>1 DEF InOrder
      <3>3. \A e \in ToSet(r) : e \in ToSet(q) \/ e = seq
        BY <1>10
      <3>4. Ascends(r)
        BY <1>10, <3>2
      <3>5. \A e \in Sent(w), d \in ToSet(r) : e < d
        BY <3>2, <3>3
      <3>6. \A e \in Sent(w) \cup ToSet(r) : e <= seq
        BY <1>4, <3>2, <3>3 DEF E
      <3> QED
        BY <1>2, <1>8, <3>1, <3>2, <3>4, <3>5, <3>6 DEF InOrder
    <2>3. Coming(c)' \subseteq Coming(c)
      <3>1. Coming(c) = Sent(wire[c]) \cup ToSet(q) \cup {seq}
        BY <1>2, <1>3 DEF Coming
      <3>2. Coming(c)' = Sent(wire[c]) \cup ToSet(r)
        BY <1>2, <1>8 DEF Coming
      <3> QED
        BY <1>10, <3>1, <3>2
    <2> QED
      BY <2>1, <2>2, <2>3
  <1>12. ASSUME NEW d \in Conn, d # c PROVE Stages(d)' /\ InOrder(d)' /\ Coming(d)' \subseteq Coming(d)
    BY <1>1, <1>2, <1>8, <1>12, Untouched
  <1>13. \A d \in Conn : Awaiting(d)' <=> Awaiting(d)
    BY <1>2 DEF Awaiting
  <1>14. \A d \in Conn : Greets(d)'
    BY <1>1, <1>2, <1>11, <1>12, KeepsGreets
  <1>15. Buffering'
    BY <1>1, <1>2, <1>11, <1>12, KeepsBuffering
  <1>16. Showing'
    BY <1>1, <1>2, <1>11, <1>12, <1>13, KeepsShowing
  <1> QED
    BY <1>9, <1>11, <1>12, <1>14, <1>15, <1>16 DEF IInv

LEMMA PumpStep ==
  ASSUME IInv, NEW c \in Conn, Pump(c)
  PROVE  IInv'
  <1>1. /\ TypeOK /\ Buffering /\ Showing
        /\ \A d \in Conn : Stages(d) /\ InOrder(d) /\ Greets(d)
    BY DEF IInv
  <1>2. /\ stage[c] = "pumping" /\ queue[c] # << >>
        /\ seq' = seq /\ sending' = sending /\ buffer' = buffer /\ expired' = expired /\ room' = room
        /\ stage' = stage /\ shown' = shown /\ conn' = conn /\ tab' = tab /\ retries' = retries
    BY DEF Pump, run, hub, viewer
  <1>3. PICK q, h, t, w, v : /\ q = queue[c] /\ h = Head(q) /\ t = Tail(q)
                             /\ w = wire[c] /\ v = Append(w, Live(h))
    OBVIOUS
  <1>4. /\ queue \in [Conn -> Seq(E)] /\ wire \in [Conn -> Seq(Message)]
        /\ \A d \in Conn : Len(queue[d]) <= SendCap
    BY <1>1 DEF TypeOK, E
  <1>5. /\ Ascends(q) /\ SentAscends(w) /\ Wired(w)
        /\ \A e \in Sent(w), d \in ToSet(q) : e < d
        /\ \A e \in Sent(w) \cup ToSet(q) : e <= seq /\ (c \in sending => e < seq)
    BY <1>1, <1>3 DEF InOrder, Stages
  <1>6. q \in Seq(E) /\ w \in Seq(Message) /\ q # << >>
    BY <1>2, <1>3, <1>4
  <1>7. /\ t \in Seq(E) /\ h \in E /\ Len(t) = Len(q) - 1
        /\ ToSet(q) = {h} \cup ToSet(t) /\ Ascends(t) /\ \A d \in ToSet(t) : h < d
    BY <1>3, <1>5, <1>6, QueuePop
  <1>8. /\ v \in Seq(Message) /\ Sent(v) = Sent(w) \cup {h} /\ Wired(v)
        /\ Greeting(v) <=> Greeting(w)
        /\ Greeting(w) => v[1] = w[1]
        /\ SentAscends(v)
    <2>1. \A d \in Sent(w) : d < h
      BY <1>5, <1>7
    <2>2. w \in Seq(Message) /\ h \in E /\ v = Append(w, Live(h)) /\ Wired(w) /\ SentAscends(w)
      BY <1>3, <1>5, <1>6, <1>7
    <2> QED
      BY <2>1, <2>2, WirePush
  <1>9. queue' = [queue EXCEPT ![c] = t] /\ wire' = [wire EXCEPT ![c] = v]
    BY <1>3 DEF Pump
  <1>10. /\ queue'[c] = t /\ wire'[c] = v
         /\ \A d \in Conn : d # c => queue'[d] = queue[d] /\ wire'[d] = wire[d]
    BY <1>4, <1>9
  <1>11. TypeOK'
    <2>1. Len(t) <= SendCap
      BY <1>3, <1>4, <1>6, <1>7, HubAssumption, LenProperties
    <2>2. queue' \in [Conn -> Seq(E)] /\ \A d \in Conn : Len(queue'[d]) <= SendCap
      BY <1>4, <1>7, <1>9, <1>10, <2>1
    <2>3. wire' \in [Conn -> Seq(Message)]
      BY <1>4, <1>8, <1>9
    <2> QED
      BY <1>1, <1>2, <2>2, <2>3 DEF TypeOK, E
  <1>12. Stages(c)' /\ InOrder(c)' /\ Coming(c)' \subseteq Coming(c) /\ (Awaiting(c)' <=> Awaiting(c))
    <2>1. Stages(c)'
      BY <1>1, <1>2, <1>8, <1>10 DEF Stages
    <2>2. InOrder(c)'
      <3>1. ASSUME NEW e \in Sent(v), NEW d \in ToSet(t) PROVE e < d
        BY <1>5, <1>7, <1>8
      <3>2. \A e \in Sent(v) \cup ToSet(t) : e <= seq /\ (c \in sending => e < seq)
        BY <1>5, <1>7, <1>8
      <3> QED
        BY <1>2, <1>7, <1>8, <1>10, <3>1, <3>2 DEF InOrder
    <2>3. Coming(c)' \subseteq Coming(c)
      BY <1>2, <1>3, <1>7, <1>8, <1>10 DEF Coming
    <2>4. Awaiting(c)' <=> Awaiting(c)
      BY <1>2, <1>3, <1>8, <1>10 DEF Awaiting
    <2> QED
      BY <2>1, <2>2, <2>3, <2>4
  <1>13. ASSUME NEW d \in Conn, d # c
         PROVE  Stages(d)' /\ InOrder(d)' /\ Coming(d)' \subseteq Coming(d) /\ (Awaiting(d)' <=> Awaiting(d))
    BY <1>1, <1>2, <1>10, <1>13, Untouched
  <1>14. \A d \in Conn : Greeting(wire'[d]) => Greeting(wire[d]) /\ wire'[d][1] = wire[d][1]
    BY <1>3, <1>8, <1>10
  <1>15. \A d \in Conn : Greets(d)'
    BY <1>1, <1>2, <1>12, <1>13, <1>14, KeepsGreets
  <1>16. Buffering'
    BY <1>1, <1>2, <1>12, <1>13, KeepsBuffering
  <1>17. Showing'
    BY <1>1, <1>2, <1>12, <1>13, KeepsShowing
  <1> QED
    BY <1>11, <1>12, <1>13, <1>15, <1>16, <1>17 DEF IInv

LEMMA UnsubscribeStep ==
  ASSUME IInv, NEW c \in Conn, Unsubscribe(c)
  PROVE  IInv'
  <1>1. /\ TypeOK /\ Buffering /\ Showing
        /\ \A d \in Conn : Stages(d) /\ InOrder(d) /\ Greets(d)
    BY DEF IInv
  <1>2. /\ stage[c] = "pumping" /\ stage' = [stage EXCEPT ![c] = "done"] /\ room' = room \ {c}
        /\ seq' = seq /\ sending' = sending /\ buffer' = buffer /\ expired' = expired
        /\ queue' = queue /\ wire' = wire
        /\ shown' = shown /\ conn' = conn /\ tab' = tab /\ retries' = retries
    BY DEF Unsubscribe, run, viewer
  <1>3. stage \in [Conn -> {"none", "accepted", "joined", "pumping", "done"}]
    BY <1>1 DEF TypeOK
  <1>4. stage'[c] = "done" /\ \A d \in Conn : d # c => stage'[d] = stage[d]
    BY <1>2, <1>3
  <1>5. TypeOK'
    <2>1. stage' \in [Conn -> {"none", "accepted", "joined", "pumping", "done"}]
      BY <1>2, <1>3
    <2> QED
      BY <1>1, <1>2, <2>1 DEF TypeOK
  <1>6. Stages(c)' /\ InOrder(c)' /\ Coming(c)' \subseteq Coming(c) /\ (Awaiting(c)' <=> Awaiting(c))
    <2>1. Stages(c)'
      BY <1>1, <1>2, <1>4 DEF Stages
    <2>2. InOrder(c)'
      BY <1>1, <1>2 DEF InOrder
    <2>3. Coming(c)' \subseteq Coming(c)
      BY <1>2 DEF Coming
    <2>4. Awaiting(c)' <=> Awaiting(c)
      BY <1>2, <1>4 DEF Awaiting
    <2> QED
      BY <2>1, <2>2, <2>3, <2>4
  <1>7. ASSUME NEW d \in Conn, d # c
        PROVE  Stages(d)' /\ InOrder(d)' /\ Coming(d)' \subseteq Coming(d) /\ (Awaiting(d)' <=> Awaiting(d))
    BY <1>1, <1>2, <1>4, <1>7, Untouched
  <1>8. \A d \in Conn : Greets(d)'
    BY <1>1, <1>2, <1>6, <1>7, KeepsGreets
  <1>9. Buffering'
    BY <1>1, <1>2, <1>4, <1>6, <1>7, KeepsBuffering
  <1>10. Showing'
    BY <1>1, <1>2, <1>6, <1>7, KeepsShowing
  <1> QED
    BY <1>5, <1>6, <1>7, <1>8, <1>9, <1>10 DEF IInv

LEMMA JoinStep ==
  ASSUME IInv, NEW c \in Conn, Join(c)
  PROVE  IInv'
  <1>1. /\ TypeOK /\ Buffering /\ Showing
        /\ \A d \in Conn : Stages(d) /\ InOrder(d) /\ Greets(d)
    BY DEF IInv
  <1>2. /\ stage[c] = "accepted" /\ stage' = [stage EXCEPT ![c] = "joined"] /\ room' = room \cup {c}
        /\ seq' = seq /\ sending' = sending /\ buffer' = buffer /\ expired' = expired
        /\ queue' = queue /\ wire' = wire
        /\ shown' = shown /\ conn' = conn /\ tab' = tab /\ retries' = retries
    BY DEF Join, run, viewer
  <1>3. stage \in [Conn -> {"none", "accepted", "joined", "pumping", "done"}]
    BY <1>1 DEF TypeOK
  <1>4. stage'[c] = "joined" /\ \A d \in Conn : d # c => stage'[d] = stage[d]
    BY <1>2, <1>3
  <1>5. TypeOK'
    <2>1. stage' \in [Conn -> {"none", "accepted", "joined", "pumping", "done"}]
      BY <1>2, <1>3
    <2> QED
      BY <1>1, <1>2, <2>1 DEF TypeOK
  <1>6. queue[c] = << >> /\ wire[c] = << >> /\ c \notin sending
    BY <1>1, <1>2 DEF Stages
  <1>7. Coming(c)' = {}
    <2>1. PICK none : none = << >>
      OBVIOUS
    <2>2. queue'[c] = none /\ wire'[c] = none /\ ToSet(none) = {} /\ Sent(none) = {}
      BY <1>2, <1>6, <2>1, NothingIn
    <2> QED
      BY <1>2, <1>6, <2>2 DEF Coming
  <1>8. Stages(c)' /\ InOrder(c)' /\ Coming(c)' \subseteq Coming(c) /\ (Awaiting(c)' <=> Awaiting(c))
    <2>1. Stages(c)'
      BY <1>1, <1>2, <1>4, <1>6 DEF Stages
    <2>2. InOrder(c)'
      BY <1>1, <1>2 DEF InOrder
    <2>3. Coming(c)' \subseteq Coming(c)
      BY <1>7
    <2>4. Awaiting(c)' <=> Awaiting(c)
      BY <1>2, <1>4 DEF Awaiting
    <2> QED
      BY <2>1, <2>2, <2>3, <2>4
  <1>9. ASSUME NEW d \in Conn, d # c
        PROVE  Stages(d)' /\ InOrder(d)' /\ Coming(d)' \subseteq Coming(d) /\ (Awaiting(d)' <=> Awaiting(d))
    BY <1>1, <1>2, <1>4, <1>9, Untouched
  <1>10. \A d \in Conn : Greets(d)'
    BY <1>1, <1>2, <1>8, <1>9, KeepsGreets
  <1>11. Buffering'
    BY <1>1, <1>2, <1>4, <1>7, <1>8, <1>9, KeepsBuffering
  <1>12. Showing'
    BY <1>1, <1>2, <1>8, <1>9, KeepsShowing
  <1> QED
    BY <1>5, <1>8, <1>9, <1>10, <1>11, <1>12 DEF IInv

(* The tab closes or leaves, or the buffer's time is over.                 *)
LEMMA QuietStep ==
  ASSUME IInv, Close \/ Leave \/ Expire
  PROVE  IInv'
  <1>1. /\ TypeOK /\ Buffering /\ Showing
        /\ \A d \in Conn : Stages(d) /\ InOrder(d) /\ Greets(d)
    BY DEF IInv
  <1>2. /\ seq' = seq /\ sending' = sending /\ buffer' = buffer /\ room' = room
        /\ stage' = stage /\ queue' = queue /\ wire' = wire /\ shown' = shown /\ conn' = conn
        /\ tab' = "open" => tab = "open"
    BY DEF Close, Leave, Expire, run, hub, handler, viewer
  <1>3. /\ tab' \in {"connecting", "open", "failed", "left"} /\ retries' \in 0 .. MaxRetries
        /\ expired' \in BOOLEAN
    <2>1. /\ tab \in {"connecting", "open", "failed", "left"} /\ retries \in 0 .. MaxRetries
          /\ expired \in BOOLEAN
      BY <1>1 DEF TypeOK
    <2>2. CASE Close
      BY <2>1, <2>2, HubAssumption DEF Close, hub
    <2>3. CASE Leave
      BY <2>1, <2>3 DEF Leave, hub
    <2>4. CASE Expire
      BY <2>1, <2>4 DEF Expire, viewer
    <2> QED
      BY <2>2, <2>3, <2>4
  <1>4. TypeOK'
    BY <1>1, <1>2, <1>3 DEF TypeOK
  <1>5. expired' => \/ expired
                    \/ \A c \in Conn : stage[c] # "joined"
    BY DEF Close, Leave, Expire, run, hub, handler, viewer
  <1>6. \A c \in Conn : Stages(c)' /\ InOrder(c)' /\ Coming(c)' \subseteq Coming(c) /\ (Awaiting(c)' <=> Awaiting(c))
    BY <1>1, <1>2, Untouched
  <1>7. \A c \in Conn : Greets(c)'
    BY <1>1, <1>2, <1>6, KeepsGreets
  <1>8. Buffering'
    BY <1>1, <1>2, <1>5, <1>6, KeepsBuffering
  <1>9. Showing'
    BY <1>1, <1>2, <1>6, KeepsShowing
  <1> QED
    BY <1>4, <1>6, <1>7, <1>8, <1>9 DEF IInv

LEMMA CatchUpStep ==
  ASSUME IInv, NEW c \in Conn, CatchUp(c)
  PROVE  IInv'
  <1>1. /\ TypeOK /\ Buffering /\ Showing
        /\ \A d \in Conn : Stages(d) /\ InOrder(d) /\ Greets(d)
    BY DEF IInv
  <1>2. /\ stage[c] = "joined" /\ stage' = [stage EXCEPT ![c] = "pumping"]
        /\ seq' = seq /\ sending' = sending /\ buffer' = buffer /\ expired' = expired /\ room' = room
        /\ queue' = queue /\ shown' = shown /\ conn' = conn /\ tab' = tab /\ retries' = retries
    BY DEF CatchUp, run, hub, viewer
  <1>3. PICK events, w, v : /\ events = (IF expired THEN << >> ELSE buffer)
                            /\ w = wire[c] /\ v = Append(w, Connected(events))
    OBVIOUS
  <1>4. /\ stage \in [Conn -> {"none", "accepted", "joined", "pumping", "done"}]
        /\ wire \in [Conn -> Seq(Message)] /\ buffer \in Seq(E)
    BY <1>1 DEF TypeOK, E
  <1>5. w = << >>
    BY <1>1, <1>2, <1>3 DEF Stages
  <1>6. /\ events \in Seq(E) /\ Ascends(events) /\ \A e \in ToSet(events) : e <= seq
        /\ ~ expired => events = buffer
    <2>1. CASE expired
      <3>1. events = << >>
        BY <1>3, <2>1
      <3>2. ToSet(events) = {} /\ Ascends(events)
        BY <3>1, NothingIn
      <3>3. events \in Seq(E)
        BY <3>1, EmptySeq
      <3> QED
        BY <2>1, <3>2, <3>3
    <2>2. CASE ~ expired
      BY <1>1, <1>3, <1>4, <2>2 DEF Buffering
    <2> QED
      BY <2>1, <2>2
  <1>7. v \in Seq(Message) /\ Sent(v) = {} /\ Wired(v) /\ SentAscends(v) /\ Greeting(v) /\ v[1].events = events
    BY <1>3, <1>5, <1>6, WireGreet
  <1>8. wire' = [wire EXCEPT ![c] = v]
    BY <1>3 DEF CatchUp
  <1>9. /\ wire'[c] = v /\ stage'[c] = "pumping"
        /\ \A d \in Conn : d # c => wire'[d] = wire[d] /\ stage'[d] = stage[d]
    BY <1>2, <1>4, <1>8
  <1>10. TypeOK'
    <2>1. wire' \in [Conn -> Seq(Message)]
      BY <1>4, <1>7, <1>8
    <2>2. stage' \in [Conn -> {"none", "accepted", "joined", "pumping", "done"}]
      BY <1>2, <1>4
    <2> QED
      BY <1>1, <1>2, <2>1, <2>2 DEF TypeOK
  <1>11. Sent(w) = {}
    BY <1>5, NothingIn
  <1>12. Stages(c)' /\ InOrder(c)' /\ Coming(c)' = Coming(c) /\ (Awaiting(c)' <=> Awaiting(c))
    <2>1. Stages(c)'
      BY <1>1, <1>2, <1>7, <1>9 DEF Stages
    <2>2. InOrder(c)'
      BY <1>1, <1>2, <1>7, <1>9 DEF InOrder
    <2>3. Coming(c)' = Coming(c)
      BY <1>2, <1>3, <1>7, <1>9, <1>11 DEF Coming
    <2>4. Awaiting(c)' <=> Awaiting(c)
      BY <1>2, <1>7, <1>9 DEF Awaiting
    <2> QED
      BY <2>1, <2>2, <2>3, <2>4
  <1>13. ASSUME NEW d \in Conn, d # c
         PROVE  Stages(d)' /\ InOrder(d)' /\ Coming(d)' \subseteq Coming(d) /\ (Awaiting(d)' <=> Awaiting(d))
    BY <1>1, <1>2, <1>9, <1>13, Untouched
  <1>14. Greets(c)'
    <2>1. ASSUME NEW e \in Coming(c) PROVE Follows(e, ToSet(events))
      <3>1. ~ expired /\ Follows(e, ToSet(buffer))
        BY <1>1, <1>2 DEF Buffering
      <3> QED
        BY <1>6, <3>1
    <2> QED
      BY <1>2, <1>6, <1>7, <1>9, <1>12, <2>1 DEF Greets
  <1>15. ASSUME NEW d \in Conn, d # c PROVE Greets(d)'
    BY <1>1, <1>2, <1>9, <1>13, <1>15, KeepsGreets
  <1>16. Buffering'
    <2>1. \A d \in Conn : Coming(d)' \subseteq Coming(d)
      BY <1>12, <1>13
    <2> QED
      BY <1>1, <1>2, <1>9, <2>1, KeepsBuffering
  <1>17. Showing'
    BY <1>1, <1>2, <1>12, <1>13, KeepsShowing
  <1> QED
    BY <1>10, <1>12, <1>13, <1>14, <1>15, <1>16, <1>17 DEF IInv

LEMMA CleanupStep ==
  ASSUME IInv, Cleanup
  PROVE  IInv'
  <1>1. /\ TypeOK /\ Buffering /\ Showing
        /\ \A d \in Conn : Stages(d) /\ InOrder(d) /\ Greets(d)
    BY DEF IInv
  <1>2. /\ expired /\ buffer' = << >> /\ expired' = expired
        /\ seq' = seq /\ sending' = sending /\ room' = room
        /\ stage' = stage /\ queue' = queue /\ wire' = wire
        /\ shown' = shown /\ conn' = conn /\ tab' = tab /\ retries' = retries
    BY DEF Cleanup, run, handler, viewer
  <1>3. PICK b : b = << >>
    OBVIOUS
  <1>4. b \in Seq(E) /\ Len(b) = 0 /\ buffer' = b /\ ToSet(b) = {} /\ Ascends(b)
    BY <1>2, <1>3, NothingIn, EmptySeq
  <1>5. TypeOK'
    BY <1>1, <1>2, <1>4, HubAssumption DEF TypeOK, E
  <1>6. \A c \in Conn : Stages(c)' /\ InOrder(c)' /\ Coming(c)' \subseteq Coming(c) /\ (Awaiting(c)' <=> Awaiting(c))
    BY <1>1, <1>2, Untouched
  <1>7. \A c \in Conn : Greets(c)'
    BY <1>1, <1>2, <1>6, KeepsGreets
  <1>8. Buffering'
    <2>1. \A c \in Conn : ~ (stage'[c] = "joined" /\ Coming(c)' # {})
      BY <1>1, <1>2, <1>6 DEF Buffering
    <2> QED
      BY <1>1, <1>2, <1>4, <2>1 DEF Buffering
  <1>9. Showing'
    BY <1>1, <1>2, <1>6, KeepsShowing
  <1> QED
    BY <1>5, <1>6, <1>7, <1>8, <1>9 DEF IInv

LEMMA OpenStep ==
  ASSUME IInv, Open
  PROVE  IInv'
  <1>1. /\ TypeOK /\ Buffering /\ Showing
        /\ \A d \in Conn : Stages(d) /\ InOrder(d) /\ Greets(d)
    BY DEF IInv
  <1>2. PICK n : n = conn + 1
    OBVIOUS
  <1>3. /\ conn' = n /\ tab' = "open" /\ retries' = 0 /\ conn < MaxConns
        /\ stage' = [stage EXCEPT ![n] = "accepted"]
        /\ seq' = seq /\ sending' = sending /\ buffer' = buffer /\ expired' = expired /\ room' = room
        /\ queue' = queue /\ wire' = wire /\ shown' = shown
    BY <1>2 DEF Open, run, hub
  <1>4. /\ stage \in [Conn -> {"none", "accepted", "joined", "pumping", "done"}]
        /\ conn \in 0 .. MaxConns
    BY <1>1 DEF TypeOK
  <1>5. n \in Conn /\ n > conn /\ n \in 0 .. MaxConns /\ \A d \in Conn : d > n => d > conn
    BY <1>2, <1>3, <1>4, HubAssumption DEF Conn
  <1>6. stage'[n] = "accepted" /\ \A d \in Conn : d # n => stage'[d] = stage[d]
    BY <1>3, <1>4, <1>5
  <1>7. TypeOK'
    <2>1. stage' \in [Conn -> {"none", "accepted", "joined", "pumping", "done"}]
      BY <1>3, <1>4
    <2>2. retries' \in 0 .. MaxRetries
      BY <1>3, HubAssumption
    <2> QED
      BY <1>1, <1>3, <1>5, <2>1, <2>2 DEF TypeOK
  <1>8. queue[n] = << >> /\ wire[n] = << >> /\ n \notin room \cup sending
    BY <1>1, <1>5 DEF Stages
  <1>9. Coming(n)' = {} /\ Wired(wire[n])
    <2>1. PICK none : none = << >>
      OBVIOUS
    <2>2. queue'[n] = none /\ wire'[n] = none /\ ToSet(none) = {} /\ Sent(none) = {}
      BY <1>3, <1>8, <2>1, NothingIn
    <2> QED
      BY <1>3, <1>8, <2>2, NothingIn DEF Coming
  <1>10. Stages(n)' /\ InOrder(n)' /\ Coming(n)' \subseteq Coming(n)
    <2>1. Stages(n)'
      BY <1>3, <1>5, <1>6, <1>8, <1>9, HubAssumption DEF Stages, Conn
    <2>2. InOrder(n)'
      BY <1>1, <1>3, <1>5 DEF InOrder
    <2> QED
      BY <1>9, <2>1, <2>2
  <1>11. ASSUME NEW d \in Conn, d # n
         PROVE  Stages(d)' /\ InOrder(d)' /\ Coming(d)' \subseteq Coming(d)
    BY <1>1, <1>3, <1>5, <1>6, <1>11, Untouched
  <1>12. \A d \in Conn : Greets(d)'
    BY <1>1, <1>3, <1>10, <1>11, KeepsGreets
  <1>13. Buffering'
    <2>1. \A d \in Conn : Coming(d)' \subseteq Coming(d)
      BY <1>10, <1>11
    <2>2. \A d \in Conn : stage'[d] = "joined" => stage[d] = "joined"
      BY <1>6
    <2> QED
      BY <1>1, <1>3, <2>1, <2>2, KeepsBuffering
  <1>14. Showing'
    <2>1. OnlyRepeatsOutOfOrder'
      BY <1>1, <1>3 DEF Showing, OnlyRepeatsOutOfOrder
    <2>2. Coming(conn)' = {}
      BY <1>3, <1>9
    <2> QED
      BY <1>1, <1>3, <1>5, <2>1, <2>2 DEF Showing
  <1> QED
    BY <1>7, <1>10, <1>11, <1>12, <1>13, <1>14 DEF IInv

LEMMA EmitStep ==
  ASSUME IInv, Emit
  PROVE  IInv'
  <1>1. /\ TypeOK /\ Buffering /\ Showing
        /\ \A d \in Conn : Stages(d) /\ InOrder(d) /\ Greets(d)
    BY DEF IInv
  <1>2. PICK n, b, p : n = seq + 1 /\ b = Buffered /\ p = Append(buffer, n)
    OBVIOUS
  <1>3. /\ sending = {} /\ seq' = n /\ buffer' = b /\ sending' = room /\ seq < MaxEvents
        /\ room' = room /\ stage' = stage /\ queue' = queue /\ wire' = wire
        /\ shown' = shown /\ conn' = conn /\ tab' = tab /\ retries' = retries
    BY <1>2 DEF Emit, handler, viewer
  <1>4. expired' = FALSE
    BY DEF Emit
  <1>5. /\ seq \in Nat /\ n \in E /\ n > seq /\ n \in 0 .. MaxEvents /\ buffer \in Seq(E)
        /\ room \subseteq Conn /\ Len(buffer) <= BufferCap /\ shown \in Seq(E)
    BY <1>1, <1>2, <1>3, HubAssumption DEF TypeOK, E
  <1>6. /\ p \in Seq(E) /\ Len(p) = Len(buffer) + 1
        /\ ToSet(p) = ToSet(buffer) \cup {n}
        /\ Ascends(buffer) /\ (\A d \in ToSet(buffer) : d < n) => Ascends(p)
    BY <1>2, <1>5, QueuePush
  <1>7. b = IF Len(buffer) < BufferCap THEN p ELSE buffer
    BY <1>2 DEF Buffered
  <1>8. n <= n /\ Ascends(buffer) /\ \A e \in ToSet(buffer) : e <= seq /\ e < n /\ e <= n
    <2>1. ToSet(buffer) \subseteq E
      BY <1>5, Members, ElementOfSeq
    <2>2. Ascends(buffer) /\ \A e \in ToSet(buffer) : e <= seq
      BY <1>1 DEF Buffering
    <2> QED
      BY <1>5, <2>1, <2>2 DEF E
  <1>9. /\ b \in Seq(E) /\ Len(b) <= BufferCap /\ Ascends(b)
        /\ ToSet(buffer) \subseteq ToSet(b)
        /\ \A e \in ToSet(b) : e <= n
        /\ n \in ToSet(b) \/ Len(b) = BufferCap
        /\ Len(buffer) = BufferCap => b = buffer
    <2>1. Len(buffer) \in Nat /\ BufferCap \in Nat
      BY <1>5, HubAssumption, LenProperties
    <2>2. CASE Len(buffer) < BufferCap
      <3>1. b = p
        BY <1>7, <2>2
      <3>2. Ascends(p) /\ Len(p) <= BufferCap
        BY <1>6, <1>8, <2>1, <2>2
      <3>3. \A e \in ToSet(p) : e <= n
        BY <1>6, <1>8
      <3> QED
        BY <1>6, <2>1, <2>2, <3>1, <3>2, <3>3
    <2>3. CASE ~ (Len(buffer) < BufferCap)
      <3>1. b = buffer /\ Len(buffer) = BufferCap
        BY <1>5, <1>7, <2>1, <2>3
      <3> QED
        BY <1>5, <1>8, <3>1
    <2> QED
      BY <2>2, <2>3
  <1>10. TypeOK'
    BY <1>1, <1>3, <1>4, <1>5, <1>9 DEF TypeOK, E
  <1>11. ASSUME NEW c \in Conn
         PROVE  /\ Coming(c) = Sent(wire[c]) \cup ToSet(queue[c])
                /\ Coming(c) \subseteq Coming(c)' /\ Coming(c)' \subseteq Coming(c) \cup {n}
                /\ \A e \in Coming(c) : e <= seq /\ e < n
                /\ Awaiting(c)' <=> Awaiting(c)
    <2>1. Coming(c) = Sent(wire[c]) \cup ToSet(queue[c])
      BY <1>3 DEF Coming
    <2>2. Coming(c) \subseteq Coming(c)' /\ Coming(c)' \subseteq Coming(c) \cup {n}
      BY <1>3, <2>1 DEF Coming
    <2>3. \A e \in Coming(c) : e <= seq
      BY <1>1, <2>1 DEF InOrder
    <2>4. Coming(c) \subseteq E
      <3>1. queue[c] \in Seq(E) /\ wire[c] \in Seq(Message) /\ Wired(wire[c])
        BY <1>1, Parts DEF Stages
      <3>2. ToSet(queue[c]) \subseteq E
        BY <3>1, Members, ElementOfSeq
      <3> QED
        BY <2>1, <3>1, <3>2, SentType
    <2>5. \A e \in Coming(c) : e < n
      BY <1>5, <2>3, <2>4 DEF E
    <2> QED
      BY <1>3, <2>1, <2>2, <2>3, <2>5 DEF Awaiting
  <1>12. ASSUME NEW c \in Conn PROVE Stages(c)' /\ InOrder(c)' /\ Greets(c)'
    <2>1. Stages(c)'
      BY <1>1, <1>3 DEF Stages
    <2>2. InOrder(c)'
      <3>1. \A e \in Sent(wire[c]) \cup ToSet(queue[c]) : e < n
        BY <1>11
      <3>2. \A e \in Sent(wire[c]) \cup ToSet(queue[c]) : e <= n
        <4>1. Sent(wire[c]) \cup ToSet(queue[c]) \subseteq E
          <5>1. queue[c] \in Seq(E) /\ wire[c] \in Seq(Message) /\ Wired(wire[c])
            BY <1>1, Parts DEF Stages
          <5>2. ToSet(queue[c]) \subseteq E
            BY <5>1, Members, ElementOfSeq
          <5> QED
            BY <5>1, <5>2, SentType
        <4> QED
          BY <1>5, <3>1, <4>1 DEF E
      <3> QED
        BY <1>1, <1>3, <3>1, <3>2 DEF InOrder
    <2>3. Greets(c)'
      <3> SUFFICES ASSUME Greeting(wire[c]) PROVE Greets(c)'
        BY <1>3 DEF Greets
      <3>1. PICK events : events = wire[c][1].events
        OBVIOUS
      <3>2. /\ Ascends(events) /\ \A e \in ToSet(events) : e <= seq
            /\ \A e \in Coming(c) : Follows(e, ToSet(events))
        BY <1>1, <3>1 DEF Greets
      <3>3. ToSet(events) \subseteq E
        <4>1. wire[c] \in Seq(Message) /\ wire[c] # << >>
          BY <1>1, Parts DEF Greeting
        <4>2. 1 \in 1 .. Len(wire[c])
          BY <4>1, LenProperties, EmptySeq
        <4>3. wire[c][1] \in Message
          BY <4>1, <4>2, ElementOfSeq
        <4>4. events \in Seq(E)
          BY <3>1, <4>3, Messages
        <4> QED
          BY <4>4, Members, ElementOfSeq
      <3>4. \A e \in ToSet(events) : e < n /\ e <= n
        BY <1>5, <3>2, <3>3 DEF E
      <3>5. \A e \in Coming(c)' : Follows(e, ToSet(events))
        BY <1>11, <3>2, <3>4 DEF Follows
      <3> QED
        BY <1>3, <3>1, <3>2, <3>4, <3>5 DEF Greets
    <2> QED
      BY <2>1, <2>2, <2>3
  <1>13. Buffering'
    <2>1. ASSUME NEW c \in Conn, stage[c] = "joined"
          PROVE  /\ Coming(c)' \subseteq ToSet(b) \/ Len(b) = BufferCap
                 /\ \A e \in Coming(c)' : Follows(e, ToSet(b))
      <3>1. Coming(c) \subseteq ToSet(buffer) \/ Len(buffer) = BufferCap
        BY <1>1, <2>1 DEF Buffering
      <3>2. \A e \in Coming(c) : Follows(e, ToSet(buffer))
        BY <1>1, <2>1 DEF Buffering
      <3>3. Follows(n, ToSet(b))
        <4>1. CASE n \in ToSet(b)
          BY <4>1 DEF Follows
        <4>2. CASE n \notin ToSet(b)
          <5>1. b \in Seq(E) /\ \A e \in ToSet(b) : e <= n /\ e # n
            BY <1>9, <4>2
          <5>2. ToSet(b) \subseteq E
            BY <5>1, Members, ElementOfSeq
          <5>3. \A e \in ToSet(b) : e < n
            BY <1>5, <5>1, <5>2 DEF E
          <5> QED
            BY <5>3 DEF Follows
        <4> QED
          BY <4>1, <4>2
      <3>4. CASE Len(buffer) = BufferCap
        BY <1>9, <1>11, <3>2, <3>3, <3>4
      <3>5. CASE Coming(c) \subseteq ToSet(buffer)
        <4>1. Coming(c) \subseteq ToSet(b)
          BY <1>9, <3>5
        <4>2. \A e \in Coming(c) : Follows(e, ToSet(b))
          BY <4>1 DEF Follows
        <4> QED
          BY <1>9, <1>11, <3>3, <4>1, <4>2
      <3> QED
        BY <3>1, <3>4, <3>5
    <2>2. Ascends(b) /\ (\A e \in ToSet(b) : e <= n) /\ n > 0
      BY <1>5, <1>9
    <2> QED
      BY <1>3, <1>4, <2>1, <2>2 DEF Buffering
  <1>14. Showing'
    <2>1. \A d \in ToSet(shown) : d <= seq /\ d < n /\ d <= n
      <3>1. ToSet(shown) \subseteq E /\ \A d \in ToSet(shown) : d <= seq
        BY <1>1, <1>5, Members, ElementOfSeq DEF Showing
      <3> QED
        BY <1>5, <3>1 DEF E
    <2>2. Times(shown, n) <= 1
      <3>1. PICK m : m = Times(shown, n)
        OBVIOUS
      <3>2. m \in Nat /\ (m > 0 <=> n \in ToSet(shown))
        BY <1>5, <3>1, TimesCounts, Members
      <3>3. n \notin ToSet(shown)
        BY <1>5, <2>1
      <3>4. m <= 1
        BY <3>2, <3>3
      <3> QED
        BY <3>1, <3>4
    <2>3. PICK c : c = conn /\ c = conn'
      BY <1>3
    <2>4. ASSUME c \in Conn, NEW e \in Coming(c)'
          PROVE  /\ Awaiting(c)' => \A d \in ToSet(shown) : d < e
                 /\ ~ Awaiting(c)' => Follows(e, ToSet(shown)) /\ Times(shown, e) <= 1
      <3>1. Awaiting(c)' <=> Awaiting(c)
        BY <1>11, <2>4
      <3>2. CASE e = n
        BY <2>1, <2>2, <3>2 DEF Follows
      <3>3. CASE e \in Coming(c)
        BY <1>1, <2>3, <2>4, <3>1, <3>3 DEF Showing
      <3>4. e = n \/ e \in Coming(c)
        BY <1>11, <2>4
      <3> QED
        BY <3>2, <3>3, <3>4
    <2>5. OnlyRepeatsOutOfOrder' /\ (tab = "open" => c \in Conn)
      BY <1>1, <1>3, <2>3 DEF Showing, OnlyRepeatsOutOfOrder
    <2>6. \A e \in E : Times(shown, e) <= 2
      BY <1>1 DEF Showing
    <2> QED
      BY <1>3, <2>1, <2>3, <2>4, <2>5, <2>6 DEF Showing
  <1> QED
    BY <1>10, <1>12, <1>13, <1>14 DEF IInv

LEMMA SortedOnlyRepeats ==
  ASSUME NEW s \in Seq(E), Sorted(s)
  PROVE  \A i, j \in 1 .. Len(s) : ~ (i < j /\ s[j] < s[i])
  <1> SUFFICES ASSUME NEW i \in 1 .. Len(s), NEW j \in 1 .. Len(s), i < j PROVE ~ (s[j] < s[i])
    OBVIOUS
  <1>1. s[i] \in E /\ s[j] \in E /\ s[i] <= s[j]
    BY ElementOfSeq DEF Sorted
  <1> QED
    BY <1>1 DEF E

LEMMA OnceAscends ==
  ASSUME NEW s \in Seq(E), Ascends(s)
  PROVE  \A e \in E : Times(s, e) <= 1
  <1> SUFFICES ASSUME NEW e \in E PROVE Times(s, e) <= 1
    OBVIOUS
  <1>1. ASSUME NEW i \in 1 .. Len(s), NEW j \in 1 .. Len(s), i < j PROVE ~ (s[i] = e /\ s[j] = e)
    BY <1>1 DEF Ascends, E
  <1> QED
    BY <1>1, TimesOnce

(* What the page may show, new, while the events of coming are on their    *)
(* way to it: the clauses of Showing that a delivery changes.              *)
Shows(new, coming) ==
  /\ new \in Seq(E)
  /\ \A e \in ToSet(new) : e <= seq
  /\ \A e \in coming : Follows(e, ToSet(new)) /\ Times(new, e) <= 1
  /\ \A e \in E : Times(new, e) <= 2
  /\ \A i, j \in DOMAIN new : i < j /\ new[j] < new[i] => \E k \in 1 .. i : new[k] = new[j]

(* The buffered events arrive.                                             *)
LEMMA ShowsGreeting ==
  ASSUME Showing, shown \in Seq(E), NEW events \in Seq(E), Ascends(events),
         \A e \in ToSet(events) : e <= seq,
         NEW coming, coming \subseteq E,
         \A e \in coming : Follows(e, ToSet(events)) /\ \A d \in ToSet(shown) : d < e,
         NEW new, new = Merge(events)
  PROVE  Shows(new, coming)
  <1>1. /\ new \in Seq(E) /\ ToSet(new) = ToSet(shown) \cup ToSet(events)
        /\ \A e \in E : Times(new, e) = IF e \in ToSet(shown) THEN Times(shown, e) ELSE Times(events, e)
        /\ new = shown \/ Sorted(new)
    BY MergeShows
  <1>2. \A e \in E : Times(events, e) <= 1 /\ Times(events, e) \in Nat
    BY OnceAscends, TimesCounts
  <1>3. \A e \in ToSet(new) : e <= seq
    BY <1>1 DEF Showing
  <1>4. ASSUME NEW e \in coming PROVE Follows(e, ToSet(new)) /\ Times(new, e) <= 1
    <2>1. e \in E
      OBVIOUS
    <2>2. e \notin ToSet(shown)
      BY <2>1 DEF E
    <2>3. Times(new, e) <= 1
      BY <1>1, <1>2, <2>1, <2>2
    <2>4. Follows(e, ToSet(new))
      BY <1>1 DEF Follows
    <2> QED
      BY <2>3, <2>4
  <1>5. ASSUME NEW e \in E PROVE Times(new, e) <= 2
    <2>1. CASE e \in ToSet(shown)
      <3>1. Times(shown, e) <= 2
        BY DEF Showing
      <3>2. Times(new, e) = Times(shown, e)
        BY <1>1, <2>1
      <3> QED
        BY <3>1, <3>2
    <2>2. CASE e \notin ToSet(shown)
      <3>1. PICK m : m = Times(events, e)
        OBVIOUS
      <3>2. m \in Nat /\ m <= 1
        BY <1>2, <3>1
      <3>3. Times(new, e) = m
        BY <1>1, <2>2, <3>1
      <3>4. m <= 2
        BY <3>2
      <3> QED
        BY <3>3, <3>4
    <2> QED
      BY <2>1, <2>2
  <1>6. \A i, j \in DOMAIN new : i < j /\ new[j] < new[i] => \E k \in 1 .. i : new[k] = new[j]
    <2>1. CASE new = shown
      BY <2>1 DEF Showing, OnlyRepeatsOutOfOrder
    <2>2. CASE Sorted(new)
      <3>1. DOMAIN new = 1 .. Len(new)
        BY <1>1, LenProperties
      <3> QED
        BY <1>1, <2>2, <3>1, SortedOnlyRepeats
    <2> QED
      BY <1>1, <2>1, <2>2
  <1> QED
    BY <1>1, <1>3, <1>4, <1>5, <1>6 DEF Shows

(* A live event arrives.                                                   *)
LEMMA ShowsLive ==
  ASSUME Showing, shown \in Seq(E), NEW x \in E, x <= seq,
         Follows(x, ToSet(shown)), Times(shown, x) <= 1,
         NEW coming, coming \subseteq E,
         \A e \in coming : x < e /\ Follows(e, ToSet(shown)) /\ Times(shown, e) <= 1,
         NEW new, new = Append(shown, x)
  PROVE  Shows(new, coming)
  <1>1. PICK n : n = Len(shown)
    OBVIOUS
  <1>2. /\ new \in Seq(E) /\ n \in Nat /\ Len(new) = n + 1 /\ ToSet(new) = ToSet(shown) \cup {x}
        /\ new[n + 1] = x /\ \A i \in 1 .. n : new[i] = shown[i]
    <2>1. new \in Seq(E) /\ ToSet(new) = ToSet(shown) \cup {x}
      BY QueuePush
    <2>2. n \in Nat /\ Len(new) = n + 1 /\ new[n + 1] = x /\ \A i \in 1 .. n : new[i] = shown[i]
      BY <1>1, AppendProperties, LenProperties
    <2> QED
      BY <2>1, <2>2
  <1>3. \A e \in E : Times(new, e) = (IF x = e THEN Times(shown, e) + 1 ELSE Times(shown, e)) /\ Times(shown, e) \in Nat
    <2> SUFFICES ASSUME NEW e \in E
                 PROVE  Times(new, e) = (IF x = e THEN Times(shown, e) + 1 ELSE Times(shown, e)) /\ Times(shown, e) \in Nat
      OBVIOUS
    <2>1. Times(new, e) = IF x = e THEN Times(shown, e) + 1 ELSE Times(shown, e)
      BY TimesAppend
    <2>2. Times(shown, e) \in Nat
      BY TimesCounts
    <2> QED
      BY <2>1, <2>2
  <1>4. \A e \in ToSet(new) : e <= seq
    BY <1>2 DEF Showing
  <1>5. ASSUME NEW e \in coming PROVE Follows(e, ToSet(new)) /\ Times(new, e) <= 1
    <2>1. e \in E /\ x # e
      BY DEF E
    <2>2. Times(new, e) <= 1
      BY <1>3, <2>1
    <2>3. Follows(e, ToSet(new))
      BY <1>2 DEF Follows
    <2> QED
      BY <2>2, <2>3
  <1>6. ASSUME NEW e \in E PROVE Times(new, e) <= 2
    <2>1. PICK m, k : m = Times(shown, e) /\ k = Times(new, e)
      OBVIOUS
    <2>2. m \in Nat /\ k = IF x = e THEN m + 1 ELSE m
      BY <1>3, <2>1
    <2>3. m <= 2 /\ (x = e => m <= 1)
      BY <2>1 DEF Showing
    <2> QED
      BY <2>1, <2>2, <2>3
  <1>7. ASSUME NEW i \in 1 .. n + 1, NEW j \in 1 .. n + 1, i < j, new[j] < new[i]
        PROVE  \E k \in 1 .. i : new[k] = new[j]
    <2>1. OnlyRepeatsOutOfOrder /\ DOMAIN shown = 1 .. n
      BY <1>1, LenProperties DEF Showing
    <2>2. i \in 1 .. n /\ new[i] = shown[i] /\ \A k \in 1 .. i : k \in 1 .. n /\ new[k] = shown[k]
      BY <1>2, <1>7
    <2>3. CASE j \in 1 .. n
      <3>1. shown[j] < shown[i] /\ new[j] = shown[j]
        BY <1>2, <1>7, <2>2, <2>3
      <3>2. PICK k \in 1 .. i : shown[k] = shown[j]
        BY <1>7, <2>1, <2>2, <2>3, <3>1 DEF OnlyRepeatsOutOfOrder
      <3> QED
        BY <2>2, <3>1, <3>2
    <2>4. CASE j = n + 1
      <3>1. new[j] = x /\ x < shown[i]
        BY <1>2, <1>7, <2>2, <2>4
      <3>2. shown[i] \in ToSet(shown) /\ shown[i] \in E
        BY <1>1, <2>2, Members, ElementOfSeq
      <3>3. x \in ToSet(shown)
        BY <3>1, <3>2 DEF Follows, E
      <3>4. PICK k \in 1 .. n : shown[k] = x
        BY <1>1, <3>3, Members
      <3>5. CASE k <= i
        <4>1. k \in 1 .. i
          BY <1>2, <3>4, <3>5
        <4> QED
          BY <2>2, <3>1, <3>4, <4>1
      <3>6. CASE k > i
        <4>1. PICK l \in 1 .. i : shown[l] = shown[k]
          BY <2>1, <2>2, <3>1, <3>4, <3>6 DEF OnlyRepeatsOutOfOrder
        <4> QED
          BY <2>2, <3>1, <3>4, <4>1
      <3> QED
        BY <1>2, <3>5, <3>6
    <2> QED
      BY <1>2, <2>3, <2>4
  <1>8. DOMAIN new = 1 .. n + 1
    BY <1>2, LenProperties
  <1>9. \A i, j \in DOMAIN new : i < j /\ new[j] < new[i] => \E k \in 1 .. i : new[k] = new[j]
    <2> SUFFICES ASSUME NEW i \in DOMAIN new, NEW j \in DOMAIN new, i < j, new[j] < new[i]
                 PROVE  \E k \in 1 .. i : new[k] = new[j]
      OBVIOUS
    <2>1. i \in 1 .. n + 1 /\ j \in 1 .. n + 1
      BY <1>8, Zenon
    <2> QED
      BY <1>7, <2>1
  <1> QED
    BY <1>2, <1>4, <1>5, <1>6, <1>9 DEF Shows

LEMMA ReceiveStep ==
  ASSUME IInv, Receive
  PROVE  IInv'
  <1>1. /\ TypeOK /\ Buffering /\ Showing
        /\ \A d \in Conn : Stages(d) /\ InOrder(d) /\ Greets(d)
    BY DEF IInv
  <1>2. PICK c \in Conn : c = conn
    BY <1>1 DEF Receive, Showing
  <1>3. PICK w, h, t, new : w = wire[c] /\ h = Head(w) /\ t = Tail(w) /\ new = shown'
    OBVIOUS
  <1>4. /\ tab = "open" /\ w # << >> /\ conn' = c
        /\ seq' = seq /\ sending' = sending /\ buffer' = buffer /\ expired' = expired /\ room' = room
        /\ stage' = stage /\ queue' = queue /\ conn' = conn /\ tab' = tab /\ retries' = retries
    BY <1>2, <1>3 DEF Receive, run, hub, handler
  <1>5. wire' = [wire EXCEPT ![c] = t]
    BY <1>2, <1>3 DEF Receive
  <1>6. new = IF h.type = "connected" THEN Merge(h.events) ELSE shown \o h.events
    BY <1>2, <1>3 DEF Receive
  <1>7. wire \in [Conn -> Seq(Message)] /\ w \in Seq(Message) /\ shown \in Seq(E)
    BY <1>1, <1>3 DEF TypeOK, E
  <1>8. /\ Ascends(queue[c]) /\ SentAscends(w) /\ Wired(w)
        /\ \A e \in Sent(w), d \in ToSet(queue[c]) : e < d
        /\ \A e \in Sent(w) \cup ToSet(queue[c]) : e <= seq /\ (c \in sending => e < seq)
        /\ stage[c] \notin {"none", "accepted", "joined"}
    BY <1>1, <1>3, <1>4 DEF InOrder, Stages
  <1>9. /\ t \in Seq(Message) /\ h \in Message /\ h = w[1]
        /\ Wired(t) /\ SentAscends(t) /\ ~ Greeting(t)
        /\ h.type = "connected" => Sent(w) = Sent(t)
        /\ h.type = "event" =>
             /\ Sent(w) = {Event(h)} \cup Sent(t)
             /\ \A d \in Sent(t) : Event(h) < d
             /\ Event(h) \in E /\ h.events = << Event(h) >>
    BY <1>3, <1>4, <1>7, <1>8, WirePop
  <1>10. h.type \in {"connected", "event"} /\ h.events \in Seq(E)
    BY <1>9, Messages
  <1>11. Sent(t) \subseteq Sent(w)
    BY <1>9, <1>10
  <1>12. wire'[c] = t /\ \A d \in Conn : d # c => wire'[d] = wire[d]
    BY <1>5, <1>7
  <1>13. Stages(c)' /\ InOrder(c)' /\ Coming(c)' \subseteq Coming(c) /\ Greets(c)' /\ ~ Awaiting(c)'
    <2>1. Stages(c)'
      BY <1>1, <1>4, <1>8, <1>9, <1>12 DEF Stages
    <2>2. InOrder(c)'
      BY <1>4, <1>8, <1>9, <1>11, <1>12 DEF InOrder
    <2>3. Coming(c)' \subseteq Coming(c)
      BY <1>3, <1>4, <1>11, <1>12 DEF Coming
    <2>4. Greets(c)'
      BY <1>9, <1>12 DEF Greets
    <2>5. ~ Awaiting(c)'
      BY <1>4, <1>8, <1>9, <1>12 DEF Awaiting
    <2> QED
      BY <2>1, <2>2, <2>3, <2>4, <2>5
  <1>14. ASSUME NEW d \in Conn, d # c
         PROVE  Stages(d)' /\ InOrder(d)' /\ Coming(d)' \subseteq Coming(d) /\ Greets(d)'
    <2>1. Stages(d)' /\ InOrder(d)' /\ Coming(d)' \subseteq Coming(d)
      BY <1>1, <1>4, <1>12, <1>14, Untouched
    <2>2. Greets(d)'
      BY <1>1, <1>4, <1>12, <1>14, <2>1, KeepsGreets
    <2> QED
      BY <2>1, <2>2
  <1>15. Buffering'
    BY <1>1, <1>4, <1>13, <1>14, KeepsBuffering
  <1>16. PICK coming : coming = Coming(c)'
    OBVIOUS
  <1>17. Coming(c) \subseteq E /\ coming \subseteq Coming(c)
    <2>1. queue[c] \in Seq(E) /\ (c \in sending => seq \in E)
      BY <1>1, HubAssumption DEF TypeOK, E, Buffering
    <2>2. ToSet(queue[c]) \subseteq E
      BY <2>1, Members, ElementOfSeq
    <2>3. Sent(wire[c]) \subseteq E
      BY <1>3, <1>7, <1>8, SentType
    <2> QED
      BY <1>13, <1>16, <2>1, <2>2, <2>3 DEF Coming
  <1>18. Shows(new, coming)
    <2>1. CASE h.type = "connected"
      <3>1. PICK events : events = h.events
        OBVIOUS
      <3>2. Greeting(w) /\ Awaiting(c)
        BY <1>3, <1>4, <1>9, <2>1 DEF Greeting, Awaiting
      <3>3. /\ events \in Seq(E) /\ Ascends(events) /\ \A e \in ToSet(events) : e <= seq
            /\ \A e \in Coming(c) : Follows(e, ToSet(events))
        BY <1>1, <1>3, <1>9, <1>10, <3>1, <3>2 DEF Greets
      <3>4. \A e \in Coming(c) : \A d \in ToSet(shown) : d < e
        BY <1>1, <1>2, <3>2 DEF Showing
      <3>5. new = Merge(events)
        BY <1>6, <2>1, <3>1
      <3>6. \A e \in coming : Follows(e, ToSet(events)) /\ \A d \in ToSet(shown) : d < e
        BY <1>17, <3>3, <3>4
      <3>7. coming \subseteq E /\ Showing
        BY <1>1, <1>17
      <3> QED
        BY <1>7, <3>3, <3>5, <3>6, <3>7, ShowsGreeting
    <2>2. CASE h.type = "event"
      <3>1. PICK x : x = Event(h)
        OBVIOUS
      <3>2. x \in E /\ x \in Sent(w) /\ x <= seq /\ h.events = <<x>>
        BY <1>8, <1>9, <2>2, <3>1
      <3>3. ~ Awaiting(c) /\ x \in Coming(c)
        <4>1. ~ Greeting(w)
          BY <1>9, <2>2 DEF Greeting
        <4> QED
          BY <1>3, <1>8, <3>2, <4>1 DEF Awaiting, Coming
      <3>4. \A e \in Coming(c) : Follows(e, ToSet(shown)) /\ Times(shown, e) <= 1
        BY <1>1, <1>2, <3>3 DEF Showing
      <3>5. ASSUME NEW e \in coming PROVE x < e
        <4>1. e \in Sent(t) \/ e \in ToSet(queue[c]) \/ (c \in sending /\ e = seq)
          BY <1>4, <1>12, <1>16 DEF Coming
        <4> QED
          BY <1>8, <1>9, <2>2, <3>1, <3>2, <4>1
      <3>6. new = Append(shown, x)
        <4>1. new = shown \o <<x>>
          BY <1>6, <2>2, <3>2
        <4> QED
          BY <1>7, <3>2, <4>1, AppendIsConcat
      <3>7. \A e \in coming : x < e /\ Follows(e, ToSet(shown)) /\ Times(shown, e) <= 1
        BY <1>17, <3>4, <3>5
      <3>8. coming \subseteq E /\ Showing /\ Follows(x, ToSet(shown)) /\ Times(shown, x) <= 1
        BY <1>1, <1>17, <3>3, <3>4
      <3> QED
        BY <1>7, <3>2, <3>6, <3>7, <3>8, ShowsLive
    <2> QED
      BY <1>10, <2>1, <2>2
  <1>19. Showing'
    <2>1. OnlyRepeatsOutOfOrder'
      BY <1>3, <1>18 DEF OnlyRepeatsOutOfOrder, Shows
    <2> QED
      BY <1>2, <1>3, <1>4, <1>13, <1>16, <1>18, <2>1 DEF Showing, Shows
  <1>20. TypeOK'
    <2>1. wire' \in [Conn -> Seq(Message)]
      BY <1>5, <1>7, <1>9
    <2> QED
      BY <1>1, <1>3, <1>4, <1>18, <2>1 DEF TypeOK, E, Shows
  <1> QED
    BY <1>13, <1>14, <1>15, <1>19, <1>20 DEF IInv

-----------------------------------------------------------------------------

LEMMA StepKeepsIInv ==
  ASSUME IInv, [Next]_vars
  PROVE  IInv'
  <1>1. CASE Emit
    BY <1>1, EmitStep
  <1>2. CASE \E c \in Conn : SendTo(c) \/ Handshake(c) \/ Pump(c) \/ Unsubscribe(c)
    BY <1>2, SendToStep, JoinStep, CatchUpStep, PumpStep, UnsubscribeStep DEF Handshake
  <1>3. CASE Close \/ Leave \/ Expire
    BY <1>3, QuietStep
  <1>4. CASE Cleanup
    BY <1>4, CleanupStep
  <1>5. CASE Open
    BY <1>5, OpenStep
  <1>6. CASE Receive
    BY <1>6, ReceiveStep
  <1>7. CASE UNCHANGED vars
    <2>1. \A c \in Conn : Stages(c)' /\ InOrder(c)' /\ Greets(c)'
      BY <1>7 DEF vars, IInv, Stages, InOrder, Greets, Coming
    <2>2. Buffering'
      BY <1>7 DEF vars, IInv, Buffering, Coming
    <2>3. Showing'
      BY <1>7 DEF vars, IInv, Showing, OnlyRepeatsOutOfOrder, Coming, Awaiting
    <2>4. TypeOK'
      BY <1>7 DEF vars, IInv, TypeOK
    <2> QED
      BY <2>1, <2>2, <2>3, <2>4 DEF IInv
  <1> QED
    BY <1>1, <1>2, <1>3, <1>4, <1>5, <1>6, <1>7 DEF Next

(* The type invariant of the live view.                                    *)
THEOREM TypeCorrect == Spec => []TypeOK
  <1>1. Init => IInv
    BY InitIInv
  <1>2. IInv /\ [Next]_vars => IInv'
    BY StepKeepsIInv
  <1>3. IInv => TypeOK
    BY DEF IInv
  <1> QED
    BY <1>1, <1>2, <1>3, PTL DEF Spec

(* However often the tab reconnects and whatever the hub drops, the tab    *)
(* shows no event more than twice, and only repetitions out of order.      *)
THEOREM RepeatsAreBounded == Spec => []RepeatsBounded
  <1>1. Init => IInv
    BY InitIInv
  <1>2. IInv /\ [Next]_vars => IInv'
    BY StepKeepsIInv
  <1>3. IInv => RepeatsBounded
    <2> SUFFICES ASSUME IInv PROVE RepeatsBounded
      OBVIOUS
    <2>1. OnlyRepeatsOutOfOrder /\ shown \in Seq(E) /\ \A e \in E : Times(shown, e) <= 2
      BY DEF IInv, Showing, TypeOK, E
    <2>2. DOMAIN shown = 1 .. Len(shown)
      BY <2>1, LenProperties
    <2>3. ASSUME NEW i \in 1 .. Len(shown), NEW j \in 1 .. Len(shown), NEW k \in 1 .. Len(shown),
                 i < j, j < k, shown[i] = shown[j], shown[j] = shown[k]
          PROVE  FALSE
      <3>1. PICK e \in E : e = shown[k]
        BY <2>1, ElementOfSeq
      <3>2. PICK m : m = Times(shown, e)
        OBVIOUS
      <3>3. m \in Nat /\ m >= 3
        BY <2>1, <2>3, <3>1, <3>2, TimesCounts
      <3>4. m <= 2
        BY <2>1, <3>2
      <3> QED
        BY <3>3, <3>4
    <2>4. ShownAtMostTwice
      BY <2>2, <2>3 DEF ShownAtMostTwice
    <2> QED
      BY <2>1, <2>4 DEF RepeatsBounded
  <1> QED
    BY <1>1, <1>2, <1>3, PTL DEF Spec

-----------------------------------------------------------------------------
(* Nothing is missing as long as no limit of the hub is met.               *)

(* The buffer and the queue of a client hold the whole run, and the run's  *)
(* events never wait for half an hour.                                     *)
NoLimits == MaxEvents <= BufferCap /\ MaxEvents <= SendCap /\ ~ MayExpire

(* Each event emitted so far is among the known ones or on its way.        *)
Covers(c, known) == \A e \in 1 .. seq : e \in known \/ e \in Coming(c)

(* From joining on a connection is sent every event; what is not on its    *)
(* way is among the buffered events, and then among those the tab shows.   *)
Complete(c) ==
  /\ stage[c] \in {"joined", "pumping"} => c \in room
  /\ stage[c] = "pumping" /\ Greeting(wire[c]) => Covers(c, ToSet(wire[c][1].events))
  /\ stage[c] = "pumping" /\ ~ Greeting(wire[c]) /\ c = conn => Covers(c, ToSet(shown))

Gapless ==
  /\ ~ expired
  /\ Len(buffer) = seq /\ ToSet(buffer) = 1 .. seq
  /\ \A c \in Conn : Complete(c)

(* Ascending numbers below n are fewer than n.                             *)
LEMMA AscendingIsShort ==
  ASSUME NEW s \in Seq(E), Ascends(s), NEW n \in E, \A e \in ToSet(s) : e < n
  PROVE  Len(s) < n
  <1>1. PICK m : m = Len(s)
    OBVIOUS
  <1>2. m \in Nat /\ \A i \in 1 .. m : s[i] \in E
    BY <1>1, LenProperties, ElementOfSeq
  <1> DEFINE P == {i \in Nat : i = 0 \/ (i <= m => i <= s[i])}
  <1>3. 0 \in P
    OBVIOUS
  <1>4. ASSUME NEW i \in Nat, i \in P PROVE i + 1 \in P
    <2>1. PICK j \in Nat : j = i + 1
      OBVIOUS
    <2>2. ASSUME j <= m PROVE j <= s[j]
      <3>1. j \in 1 .. m /\ s[j] \in E
        BY <1>2, <2>1, <2>2
      <3>2. CASE i = 0
        BY <2>1, <3>1, <3>2 DEF E
      <3>3. CASE i # 0
        <4>1. i \in 1 .. m /\ i < j /\ i <= s[i]
          BY <1>2, <1>4, <2>1, <2>2, <3>3
        <4>2. s[i] < s[j] /\ s[i] \in E
          BY <1>1, <1>2, <3>1, <4>1 DEF Ascends
        <4> QED
          BY <2>1, <3>1, <4>1, <4>2 DEF E
      <3> QED
        BY <3>2, <3>3
    <2>3. j \in P
      BY <2>2
    <2> QED
      BY <2>1, <2>3
  <1>5. m \in P
    <2> HIDE DEF P
    <2> QED
      BY <1>2, <1>3, <1>4, NumberInduction
  <1>6. CASE m = 0
    BY <1>1, <1>6 DEF E
  <1>7. CASE m # 0
    <2>1. m \in 1 .. m /\ m <= s[m] /\ s[m] \in E
      BY <1>2, <1>5, <1>7
    <2>2. s[m] \in ToSet(s)
      BY <1>1, <2>1, Members
    <2>3. s[m] < n
      BY <2>2
    <2> QED
      BY <1>1, <1>2, <2>1, <2>3 DEF E
  <1> QED
    BY <1>6, <1>7

(* What is known or coming stays so when a step loses nothing of it.       *)
LEMMA KeepsComplete ==
  ASSUME NEW c \in Conn, Complete(c), stage'[c] = stage[c],
         c \in room => c \in room', conn' = c => conn = c, ToSet(shown) \subseteq ToSet(shown'),
         Coming(c) \subseteq Coming(c)',
         c \in room => \A e \in 1 .. seq' : e \in 1 .. seq \/ e \in Coming(c)',
         Greeting(wire'[c]) <=> Greeting(wire[c]),
         Greeting(wire[c]) => wire'[c][1] = wire[c][1]
  PROVE  Complete(c)'
  <1>1. ASSUME stage[c] = "pumping", NEW known, NEW more, known \subseteq more, Covers(c, known)
        PROVE  \A e \in 1 .. seq' : e \in more \/ e \in Coming(c)'
    <2> SUFFICES ASSUME NEW e \in 1 .. seq' PROVE e \in more \/ e \in Coming(c)'
      OBVIOUS
    <2>1. c \in room
      BY <1>1 DEF Complete
    <2>2. CASE e \in Coming(c)'
      BY <2>2
    <2>3. CASE e \in 1 .. seq
      BY <1>1, <2>3 DEF Covers
    <2> QED
      BY <2>1, <2>2, <2>3
  <1>2. stage'[c] \in {"joined", "pumping"} => c \in room'
    BY DEF Complete
  <1>3. ASSUME stage'[c] = "pumping", Greeting(wire'[c])
        PROVE  Covers(c, ToSet(wire[c][1].events))'
    <2>1. PICK known : known = ToSet(wire[c][1].events)
      OBVIOUS
    <2>2. Covers(c, known) /\ ToSet(wire'[c][1].events) = known
      BY <1>3, <2>1 DEF Complete
    <2>3. \A e \in 1 .. seq' : e \in known \/ e \in Coming(c)'
      BY <1>1, <1>3, <2>2
    <2> QED
      BY <2>2, <2>3 DEF Covers
  <1>4. ASSUME stage'[c] = "pumping", ~ Greeting(wire'[c]), c = conn'
        PROVE  Covers(c, ToSet(shown))'
    <2>1. Covers(c, ToSet(shown))
      BY <1>4 DEF Complete
    <2>2. \A e \in 1 .. seq' : e \in ToSet(shown') \/ e \in Coming(c)'
      BY <1>1, <1>4, <2>1
    <2> QED
      BY <2>2 DEF Covers
  <1> QED
    BY <1>2, <1>3, <1>4 DEF Complete

(* A connection the step does not touch.                                   *)
LEMMA Undisturbed ==
  ASSUME NEW c \in Conn, Complete(c), seq' = seq,
         stage'[c] = stage[c], queue'[c] = queue[c], wire'[c] = wire[c],
         c \in sending => c \in sending', c \in room => c \in room',
         conn' = c => conn = c, ToSet(shown) \subseteq ToSet(shown')
  PROVE  Complete(c)'
  <1>1. Coming(c) \subseteq Coming(c)'
    BY DEF Coming
  <1> QED
    BY <1>1, KeepsComplete

LEMMA InitGapless ==
  ASSUME Init
  PROVE  Gapless
  <1>1. PICK none : none = << >>
    OBVIOUS
  <1>2. buffer = none /\ Len(none) = 0 /\ ToSet(none) = {} /\ seq = 0 /\ ~ expired
    BY <1>1, NothingIn DEF Init
  <1>3. \A c \in Conn : Complete(c)
    BY DEF Init, Complete
  <1> QED
    BY <1>2, <1>3 DEF Gapless

(* No event is dropped for a client that is still served.                  *)
LEMMA SendToMisses ==
  ASSUME NoLimits, IInv, Gapless, NEW c \in Conn, SendTo(c)
  PROVE  Gapless'
  <1>1. TypeOK /\ Buffering /\ InOrder(c) /\ \A d \in Conn : Complete(d)
    BY DEF IInv, Gapless
  <1>2. /\ c \in sending /\ sending' = sending \ {c}
        /\ seq' = seq /\ buffer' = buffer /\ expired' = expired /\ room' = room
        /\ stage' = stage /\ wire' = wire /\ shown' = shown /\ conn' = conn
    BY DEF SendTo, hub, viewer
  <1>3. PICK q, p : q = queue[c] /\ p = Append(q, seq)
    OBVIOUS
  <1>4. seq \in E /\ q \in Seq(E) /\ queue \in [Conn -> Seq(E)]
    BY <1>1, <1>2, <1>3, HubAssumption DEF TypeOK, E, Buffering
  <1>5. Len(q) < SendCap
    <2>1. Ascends(q) /\ \A e \in ToSet(q) : e < seq
      BY <1>1, <1>2, <1>3 DEF InOrder
    <2>2. Len(q) < seq
      BY <1>4, <2>1, AscendingIsShort
    <2>3. Len(q) \in Nat /\ SendCap \in Nat
      BY <1>4, LenProperties, HubAssumption
    <2> QED
      BY <1>4, <2>2, <2>3, HubAssumption DEF NoLimits, E
  <1>6. \/ queue' = [queue EXCEPT ![c] = p]
        \/ stage[c] = "done" /\ queue' = queue
    BY <1>3, <1>4, <1>5, HubAssumption, LenProperties DEF SendTo, Push
  <1>7. \A d \in Conn : d # c => queue'[d] = queue[d]
    BY <1>4, <1>6
  <1>8. ASSUME NEW d \in Conn, d # c PROVE Complete(d)'
    BY <1>1, <1>2, <1>7, <1>8, Undisturbed
  <1>9. Complete(c)'
    <2>1. CASE stage[c] = "done"
      BY <1>2, <2>1 DEF Complete
    <2>2. CASE queue' = [queue EXCEPT ![c] = p]
      <3>1. queue'[c] = p
        BY <1>4, <2>2
      <3>2. ToSet(p) = ToSet(q) \cup {seq}
        BY <1>3, <1>4, QueuePush
      <3>3. Coming(c) = Sent(wire[c]) \cup ToSet(q) \cup {seq}
        BY <1>2, <1>3 DEF Coming
      <3>4. Coming(c)' = Sent(wire[c]) \cup ToSet(p)
        BY <1>2, <3>1 DEF Coming
      <3>5. Coming(c) \subseteq Coming(c)'
        BY <3>2, <3>3, <3>4
      <3> QED
        BY <1>1, <1>2, <3>5, KeepsComplete
    <2> QED
      BY <1>6, <2>1, <2>2
  <1> QED
    BY <1>2, <1>8, <1>9 DEF Gapless

LEMMA PumpMisses ==
  ASSUME IInv, Gapless, NEW c \in Conn, Pump(c)
  PROVE  Gapless'
  <1>1. TypeOK /\ InOrder(c) /\ Stages(c) /\ \A d \in Conn : Complete(d)
    BY DEF IInv, Gapless
  <1>2. /\ queue[c] # << >>
        /\ seq' = seq /\ sending' = sending /\ buffer' = buffer /\ expired' = expired /\ room' = room
        /\ stage' = stage /\ shown' = shown /\ conn' = conn
    BY DEF Pump, run, hub, viewer
  <1>3. PICK q, h, t, w, v : /\ q = queue[c] /\ h = Head(q) /\ t = Tail(q)
                             /\ w = wire[c] /\ v = Append(w, Live(h))
    OBVIOUS
  <1>4. queue \in [Conn -> Seq(E)] /\ wire \in [Conn -> Seq(Message)]
    BY <1>1 DEF TypeOK, E
  <1>5. q \in Seq(E) /\ w \in Seq(Message) /\ q # << >> /\ Ascends(q) /\ Wired(w)
    BY <1>1, <1>2, <1>3, <1>4 DEF InOrder, Stages
  <1>6. t \in Seq(E) /\ h \in E /\ ToSet(q) = {h} \cup ToSet(t)
    BY <1>3, <1>5, QueuePop
  <1>7. /\ Sent(v) = Sent(w) \cup {h}
        /\ Greeting(v) <=> Greeting(w)
        /\ Greeting(w) => v[1] = w[1]
    <2>1. w \in Seq(Message) /\ h \in E /\ v = Append(w, Live(h)) /\ Wired(w)
      BY <1>3, <1>5, <1>6
    <2> QED
      BY <2>1, WirePush
  <1>8. queue' = [queue EXCEPT ![c] = t] /\ wire' = [wire EXCEPT ![c] = v]
    BY <1>3 DEF Pump
  <1>9. /\ queue'[c] = t /\ wire'[c] = v
        /\ \A d \in Conn : d # c => queue'[d] = queue[d] /\ wire'[d] = wire[d]
    BY <1>4, <1>8
  <1>10. ASSUME NEW d \in Conn, d # c PROVE Complete(d)'
    BY <1>1, <1>2, <1>9, <1>10, Undisturbed
  <1>11. Complete(c)'
    <2>1. Coming(c) \subseteq Coming(c)'
      BY <1>2, <1>3, <1>6, <1>7, <1>9 DEF Coming
    <2> QED
      BY <1>1, <1>2, <1>3, <1>7, <1>9, <2>1, KeepsComplete
  <1> QED
    BY <1>2, <1>10, <1>11 DEF Gapless

(* Joining, leaving the room, opening: the connection has nothing to miss. *)
LEMMA HandlerMisses ==
  ASSUME IInv, Gapless, NEW c \in Conn, Join(c) \/ Unsubscribe(c)
  PROVE  Gapless'
  <1>1. TypeOK /\ \A d \in Conn : Complete(d)
    BY DEF IInv, Gapless
  <1>2. /\ seq' = seq /\ sending' = sending /\ buffer' = buffer /\ expired' = expired
        /\ queue' = queue /\ wire' = wire /\ shown' = shown /\ conn' = conn
    BY DEF Join, Unsubscribe, run, viewer
  <1>3. \/ stage' = [stage EXCEPT ![c] = "joined"] /\ room' = room \cup {c}
        \/ stage' = [stage EXCEPT ![c] = "done"] /\ room' = room \ {c}
    BY DEF Join, Unsubscribe
  <1>4. stage \in [Conn -> {"none", "accepted", "joined", "pumping", "done"}]
    BY <1>1 DEF TypeOK
  <1>5. /\ stage'[c] = "done" \/ (stage'[c] = "joined" /\ c \in room')
        /\ \A d \in Conn : d # c => stage'[d] = stage[d] /\ (d \in room => d \in room')
    BY <1>3, <1>4
  <1>6. ASSUME NEW d \in Conn, d # c PROVE Complete(d)'
    BY <1>1, <1>2, <1>5, <1>6, Undisturbed
  <1>7. Complete(c)'
    BY <1>5 DEF Complete
  <1> QED
    BY <1>2, <1>6, <1>7 DEF Gapless

LEMMA CatchUpMisses ==
  ASSUME IInv, Gapless, NEW c \in Conn, CatchUp(c)
  PROVE  Gapless'
  <1>1. TypeOK /\ Stages(c) /\ \A d \in Conn : Complete(d)
    BY DEF IInv, Gapless
  <1>2. /\ stage[c] = "joined" /\ stage' = [stage EXCEPT ![c] = "pumping"]
        /\ seq' = seq /\ sending' = sending /\ buffer' = buffer /\ expired' = expired /\ room' = room
        /\ queue' = queue /\ shown' = shown /\ conn' = conn
    BY DEF CatchUp, run, hub, viewer
  <1>3. ~ expired /\ Len(buffer) = seq /\ ToSet(buffer) = 1 .. seq
    BY DEF Gapless
  <1>4. PICK w, v : w = wire[c] /\ v = Append(w, Connected(buffer))
    OBVIOUS
  <1>5. wire' = [wire EXCEPT ![c] = v]
    BY <1>3, <1>4 DEF CatchUp
  <1>6. /\ stage \in [Conn -> {"none", "accepted", "joined", "pumping", "done"}]
        /\ wire \in [Conn -> Seq(Message)] /\ buffer \in Seq(E) /\ w = << >>
    BY <1>1, <1>2, <1>4 DEF TypeOK, E, Stages
  <1>7. Greeting(v) /\ v[1].events = buffer
    BY <1>4, <1>6, WireGreet
  <1>8. /\ wire'[c] = v /\ stage'[c] = "pumping"
        /\ \A d \in Conn : d # c => wire'[d] = wire[d] /\ stage'[d] = stage[d]
    BY <1>2, <1>5, <1>6
  <1>9. ASSUME NEW d \in Conn, d # c PROVE Complete(d)'
    BY <1>1, <1>2, <1>8, <1>9, Undisturbed
  <1>10. Complete(c)'
    <2>1. c \in room'
      BY <1>1, <1>2 DEF Complete
    <2>2. \A e \in 1 .. seq' : e \in ToSet(wire'[c][1].events)
      BY <1>2, <1>3, <1>7, <1>8
    <2> QED
      BY <1>7, <1>8, <2>1, <2>2 DEF Complete, Covers
  <1> QED
    BY <1>2, <1>3, <1>9, <1>10 DEF Gapless

LEMMA OpenMisses ==
  ASSUME IInv, Gapless, Open
  PROVE  Gapless'
  <1>1. TypeOK /\ \A d \in Conn : Complete(d)
    BY DEF IInv, Gapless
  <1>2. PICK n : n = conn + 1
    OBVIOUS
  <1>3. /\ conn' = n /\ conn < MaxConns /\ stage' = [stage EXCEPT ![n] = "accepted"]
        /\ seq' = seq /\ sending' = sending /\ buffer' = buffer /\ expired' = expired /\ room' = room
        /\ queue' = queue /\ wire' = wire /\ shown' = shown
    BY <1>2 DEF Open, run, hub
  <1>4. n \in Conn /\ stage \in [Conn -> {"none", "accepted", "joined", "pumping", "done"}]
    BY <1>1, <1>2, <1>3, HubAssumption DEF TypeOK, Conn
  <1>5. stage'[n] = "accepted" /\ \A d \in Conn : d # n => stage'[d] = stage[d]
    BY <1>3, <1>4
  <1>6. ASSUME NEW d \in Conn, d # n PROVE Complete(d)'
    BY <1>1, <1>3, <1>5, <1>6, Undisturbed
  <1>7. Complete(n)'
    BY <1>5 DEF Complete
  <1> QED
    BY <1>3, <1>6, <1>7 DEF Gapless

(* The buffer has room for the event and every client is sent it.          *)
LEMMA EmitMisses ==
  ASSUME NoLimits, IInv, Gapless, Emit
  PROVE  Gapless'
  <1>1. TypeOK /\ \A d \in Conn : Complete(d)
    BY DEF IInv, Gapless
  <1>2. PICK n, p : n = seq + 1 /\ p = Append(buffer, n)
    OBVIOUS
  <1>3. /\ sending = {} /\ seq' = n /\ sending' = room /\ seq < MaxEvents /\ ~ expired'
        /\ room' = room /\ stage' = stage /\ queue' = queue /\ wire' = wire
        /\ shown' = shown /\ conn' = conn
    BY <1>2 DEF Emit, handler, viewer
  <1>4. Len(buffer) = seq /\ ToSet(buffer) = 1 .. seq
    BY DEF Gapless
  <1>5. seq \in Nat /\ n \in E /\ buffer \in Seq(E) /\ Len(buffer) < BufferCap
    BY <1>1, <1>2, <1>3, <1>4, HubAssumption DEF TypeOK, E, NoLimits
  <1>6. buffer' = p
    BY <1>2, <1>5 DEF Emit, Buffered
  <1>7. Len(p) = n /\ ToSet(p) = 1 .. n
    <2>1. Len(p) = Len(buffer) + 1 /\ ToSet(p) = ToSet(buffer) \cup {n}
      BY <1>2, <1>5, QueuePush
    <2>2. 1 .. n = (1 .. seq) \cup {n}
      BY <1>2, <1>5
    <2> QED
      BY <1>2, <1>4, <2>1, <2>2
  <1>8. ASSUME NEW d \in Conn PROVE Complete(d)'
    <2>1. Coming(d) \subseteq Coming(d)'
      BY <1>3 DEF Coming
    <2>2. d \in room => n \in Coming(d)'
      BY <1>3 DEF Coming
    <2>3. \A e \in 1 .. seq' : e \in 1 .. seq \/ e = n
      BY <1>2, <1>3, <1>5
    <2>4. d \in room => \A e \in 1 .. seq' : e \in 1 .. seq \/ e \in Coming(d)'
      BY <2>2, <2>3
    <2> QED
      BY <1>1, <1>3, <2>1, <2>4, KeepsComplete
  <1> QED
    BY <1>3, <1>6, <1>7, <1>8 DEF Gapless

(* What the tab receives it shows, and it keeps what it showed.            *)
LEMMA ReceiveMisses ==
  ASSUME IInv, Gapless, Receive
  PROVE  Gapless'
  <1>1. TypeOK /\ Showing /\ \A d \in Conn : Stages(d) /\ InOrder(d) /\ Greets(d) /\ Complete(d)
    BY DEF IInv, Gapless
  <1>2. PICK c \in Conn : c = conn
    BY <1>1 DEF Receive, Showing
  <1>3. PICK w, h, t, new : w = wire[c] /\ h = Head(w) /\ t = Tail(w) /\ new = shown'
    OBVIOUS
  <1>4. /\ w # << >>
        /\ seq' = seq /\ sending' = sending /\ buffer' = buffer /\ expired' = expired /\ room' = room
        /\ stage' = stage /\ queue' = queue /\ conn' = conn
    BY <1>2, <1>3 DEF Receive, run, hub, handler
  <1>5. wire' = [wire EXCEPT ![c] = t]
    BY <1>2, <1>3 DEF Receive
  <1>6. new = IF h.type = "connected" THEN Merge(h.events) ELSE shown \o h.events
    BY <1>2, <1>3 DEF Receive
  <1>7. wire \in [Conn -> Seq(Message)] /\ w \in Seq(Message) /\ shown \in Seq(E)
    BY <1>1, <1>3 DEF TypeOK, E
  <1>8. SentAscends(w) /\ Wired(w)
    BY <1>1, <1>3 DEF InOrder, Stages
  <1>9. /\ h \in Message /\ h = w[1] /\ ~ Greeting(t)
        /\ h.type = "connected" => Sent(w) = Sent(t)
        /\ h.type = "event" =>
             /\ Sent(w) = {Event(h)} \cup Sent(t)
             /\ Event(h) \in E /\ h.events = << Event(h) >>
    BY <1>3, <1>4, <1>7, <1>8, WirePop
  <1>10. h.type \in {"connected", "event"} /\ h.events \in Seq(E)
    BY <1>9, Messages
  <1>11. wire'[c] = t /\ \A d \in Conn : d # c => wire'[d] = wire[d]
    BY <1>5, <1>7
  <1>12. /\ ToSet(shown) \subseteq ToSet(new)
         /\ stage[c] = "pumping" => \A e \in 1 .. seq : e \in ToSet(new) \/ e \in Coming(c)'
    <2>1. CASE h.type = "connected"
      <3>1. PICK events : events = h.events
        OBVIOUS
      <3>2. Greeting(w)
        BY <1>4, <1>9, <2>1 DEF Greeting
      <3>3. events \in Seq(E) /\ Ascends(events)
        BY <1>1, <1>3, <1>9, <1>10, <3>1, <3>2 DEF Greets
      <3>4. new = Merge(events)
        BY <1>6, <2>1, <3>1
      <3>5. ToSet(new) = ToSet(shown) \cup ToSet(events)
        BY <1>7, <3>3, <3>4, MergeShows
      <3>6. Coming(c)' = Coming(c)
        BY <1>3, <1>4, <1>9, <1>11, <2>1 DEF Coming
      <3>7. stage[c] = "pumping" => Covers(c, ToSet(events))
        BY <1>1, <1>3, <1>9, <3>1, <3>2 DEF Complete
      <3> QED
        BY <3>5, <3>6, <3>7 DEF Covers
    <2>2. CASE h.type = "event"
      <3>1. PICK x : x = Event(h)
        OBVIOUS
      <3>2. x \in E /\ Sent(w) = {x} \cup Sent(t) /\ h.events = <<x>>
        BY <1>9, <2>2, <3>1
      <3>3. new = Append(shown, x)
        <4>1. new = shown \o <<x>>
          BY <1>6, <2>2, <3>2
        <4> QED
          BY <1>7, <3>2, <4>1, AppendIsConcat
      <3>4. ToSet(new) = ToSet(shown) \cup {x}
        BY <1>7, <3>2, <3>3, QueuePush
      <3>5. Coming(c) \subseteq {x} \cup Coming(c)'
        BY <1>3, <1>4, <1>11, <3>2 DEF Coming
      <3>6. stage[c] = "pumping" => Covers(c, ToSet(shown))
        <4>1. ~ Greeting(w)
          BY <1>9, <2>2 DEF Greeting
        <4> QED
          BY <1>1, <1>2, <1>3, <4>1 DEF Complete
      <3> QED
        BY <3>4, <3>5, <3>6 DEF Covers
    <2> QED
      BY <1>10, <2>1, <2>2
  <1>13. ASSUME NEW d \in Conn, d # c PROVE Complete(d)'
    BY <1>1, <1>3, <1>4, <1>11, <1>12, <1>13, Undisturbed
  <1>14. Complete(c)'
    <2>1. stage'[c] \in {"joined", "pumping"} => c \in room'
      BY <1>1, <1>4 DEF Complete
    <2>2. stage'[c] = "pumping" => Covers(c, ToSet(shown))'
      BY <1>3, <1>4, <1>12 DEF Covers
    <2> QED
      BY <1>9, <1>11, <2>1, <2>2 DEF Complete
  <1> QED
    BY <1>4, <1>13, <1>14 DEF Gapless

LEMMA StepKeepsGapless ==
  ASSUME NoLimits, IInv, Gapless, [Next]_vars
  PROVE  Gapless'
  <1>1. \A c \in Conn : Complete(c)
    BY DEF Gapless
  <1>2. CASE Emit
    BY <1>2, EmitMisses
  <1>3. CASE \E c \in Conn : SendTo(c) \/ Handshake(c) \/ Pump(c) \/ Unsubscribe(c)
    BY <1>3, SendToMisses, HandlerMisses, CatchUpMisses, PumpMisses DEF Handshake
  <1>4. CASE Close \/ Leave \/ UNCHANGED vars
    <2>1. /\ seq' = seq /\ sending' = sending /\ buffer' = buffer /\ expired' = expired /\ room' = room
          /\ stage' = stage /\ queue' = queue /\ wire' = wire /\ shown' = shown /\ conn' = conn
      BY <1>4 DEF Close, Leave, vars, run, hub, handler
    <2>2. \A c \in Conn : Complete(c)'
      BY <1>1, <2>1, Undisturbed
    <2> QED
      BY <2>1, <2>2 DEF Gapless
  <1>5. CASE Expire \/ Cleanup
    BY <1>5 DEF Expire, Cleanup, NoLimits, Gapless
  <1>6. CASE Open
    BY <1>6, OpenMisses
  <1>7. CASE Receive
    BY <1>7, ReceiveMisses
  <1> QED
    BY <1>2, <1>3, <1>4, <1>5, <1>6, <1>7 DEF Next

(* Whenever the tab joins or rejoins, once what was sent to it has arrived *)
(* it shows all events of the run so far, as long as no limit is met.      *)
THEOREM NothingIsMissed ==
  ASSUME NoLimits
  PROVE  Spec => []NoGap
  <1>1. Init => IInv /\ Gapless
    BY InitIInv, InitGapless
  <1>2. IInv /\ Gapless /\ [Next]_vars => IInv' /\ Gapless'
    BY StepKeepsIInv, StepKeepsGapless
  <1>3. IInv /\ Gapless => NoGap
    <2> SUFFICES ASSUME IInv, Gapless, Drained PROVE ToSet(shown) = 1 .. seq
      BY DEF NoGap
    <2>1. PICK c \in Conn : c = conn
      BY DEF Drained, IInv, Showing
    <2>2. PICK none : none = << >>
      OBVIOUS
    <2>3. ToSet(none) = {} /\ Sent(none) = {} /\ ~ Greeting(none)
      BY <2>2, NothingIn DEF Greeting
    <2>4. stage[c] = "pumping" /\ wire[c] = none /\ queue[c] = none /\ c \notin sending
      BY <2>1, <2>2 DEF Drained
    <2>5. Coming(c) = {}
      BY <2>3, <2>4 DEF Coming
    <2>6. Covers(c, ToSet(shown))
      BY <2>1, <2>3, <2>4 DEF Gapless, Complete
    <2>7. \A e \in ToSet(shown) : e <= seq /\ e \in E
      <3>1. shown \in Seq(E)
        BY DEF IInv, TypeOK, E
      <3>2. ToSet(shown) \subseteq E
        BY <3>1, Members, ElementOfSeq
      <3> QED
        BY <3>2 DEF IInv, Showing
    <2>8. seq \in Nat
      BY HubAssumption DEF IInv, TypeOK
    <2>9. \A e \in 1 .. seq : e \in ToSet(shown)
      BY <2>5, <2>6 DEF Covers
    <2>10. \A e \in ToSet(shown) : e \in 1 .. seq
      BY <2>7, <2>8 DEF E
    <2> QED
      BY <2>9, <2>10
  <1> QED
    BY <1>1, <1>2, <1>3, PTL DEF Spec
=============================================================================
