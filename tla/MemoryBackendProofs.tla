------------------------ MODULE MemoryBackendProofs ------------------------
(***************************************************************************)
(* Proofs about the memory backend, for every set of names, filters and    *)
(* attributes and every range of the clock.                                *)
(***************************************************************************)
EXTENDS MemoryBackend, KeySequencesProofs

USE ConstantsAssumption, NamesAssumption

-----------------------------------------------------------------------------
(* The inductive invariant *)

(* Only messages that clients name are stored. *)
KeysNamed ==
    \A a \in Accounts, q \in Queues : \A m \in Elements(ids[<<a, q>>]) : <<a, q, m>> \in Keys

(***************************************************************************)
(* The fields of a message are the deadlines the client asked for, as long *)
(* as these fit; a hide that is over may be kept as 0.                     *)
(***************************************************************************)
Timely(m) ==
    /\ m.expiresAt < Modulus => m.ttl = m.expiresAt
    /\ m.hiddenUntil < Modulus =>
          m.hide = m.hiddenUntil \/ (m.hide <= now /\ m.hiddenUntil <= now)

DeadlinesKept == \A k \in Keys : Timely(msg[k])

IndInv == TypeOK /\ now >= 1 /\ StoreConsistent /\ KeysNamed /\ DeadlinesKept

-----------------------------------------------------------------------------
(* The operators *)

(* Additions wrap at Modulus. *)
LEMMA WrapFits ==
    ASSUME NEW n \in Nat
    PROVE  /\ Wrap(n) \in 0..Modulus-1
           /\ n < Modulus => Wrap(n) = n
           /\ n < Modulus => Wrap(n + Modulus) = n
BY DEF Wrap

(* What the parts of a key are. *)
LEMMA KeyParts ==
    ASSUME NEW k \in Keys
    PROVE  /\ k[1] \in Accounts /\ k[2] \in Queues /\ k[3] \in Ids
           /\ k = <<k[1], k[2], k[3]>>
           /\ <<k[1], k[2]>> \in Accounts \X Queues
OBVIOUS

(***************************************************************************)
(* What is left when messages S of queues T are erased.                    *)
(***************************************************************************)
LEMMA EraseLeaves ==
    ASSUME TypeOK, NEW S \in SUBSET Keys, NEW T \in SUBSET (Accounts \X Queues), Erase(S, T)
    PROVE  /\ accounts' \in Seq(Accounts)
           /\ queues' \in [Accounts -> Seq(Queues)]
           /\ ids' \in [Accounts \X Queues -> Seq(Ids)]
           /\ bare' = bare
           /\ \A a \in Accounts, q \in Queues :
                 /\ \A m : m \in Elements(ids'[<<a, q>>]) <=>
                              m \in Elements(ids[<<a, q>>]) /\ <<a, q, m>> \notin S
                 /\ NoDuplicates(ids[<<a, q>>]) => NoDuplicates(ids'[<<a, q>>])
           /\ \A a \in Accounts :
                 /\ \A q : q \in Elements(queues'[a]) <=>
                              /\ q \in Elements(queues[a])
                              /\ <<a, q>> \in T /\ Scannable(<<a, q>>) => ids'[<<a, q>>] # <<>>
                 /\ NoDuplicates(queues[a]) => NoDuplicates(queues'[a])
           /\ \A a : a \in Elements(accounts') <=>
                 /\ a \in Elements(accounts)
                 /\ (\E q \in Queues : <<a, q>> \in T /\ Scannable(<<a, q>>)) => queues'[a] # <<>>
           /\ NoDuplicates(accounts) => NoDuplicates(accounts')
<1> DEFINE gone == {p \in T : Scannable(p)}
           K(p) == {m \in Ids : <<p[1], p[2], m>> \notin S}
           L(a) == {q \in Queues : <<a, q>> \notin gone \/ ids'[<<a, q>>] # <<>>}
           M == {a \in Accounts : (\A q \in Queues : <<a, q>> \notin gone) \/ queues'[a] # <<>>}
<1>1. /\ ids' = [p \in Accounts \X Queues |-> Kept(ids[p], K(p))]
      /\ queues' = [a \in Accounts |-> Kept(queues[a], L(a))]
      /\ accounts' = Kept(accounts, M)
      /\ bare' = bare
  BY DEF Erase
<1>2. /\ accounts \in Seq(Accounts)
      /\ queues \in [Accounts -> Seq(Queues)]
      /\ ids \in [Accounts \X Queues -> Seq(Ids)]
  BY DEF TypeOK
<1> HIDE DEF gone, K, L, M
<1>3. ASSUME NEW p \in Accounts \X Queues
      PROVE  /\ ids'[p] \in Seq(Ids)
             /\ \A m : m \in Elements(ids'[p]) <=>
                          m \in Elements(ids[p]) /\ <<p[1], p[2], m>> \notin S
             /\ NoDuplicates(ids[p]) => NoDuplicates(ids'[p])
  <2>1. ids'[p] = Kept(ids[p], K(p)) /\ ids[p] \in Seq(Ids)
    BY <1>1, <1>2
  <2>2. Elements(ids[p]) \subseteq Ids
    BY <2>1, ElementsInside
  <2>3. ids'[p] \in Seq(Ids) /\ Elements(ids'[p]) = Elements(ids[p]) \cap K(p)
    BY <2>1, KeptElements
  <2> QED BY <2>1, <2>2, <2>3, KeptNoDuplicates DEF K
<1>4. ASSUME NEW a \in Accounts
      PROVE  /\ queues'[a] \in Seq(Queues)
             /\ \A q : q \in Elements(queues'[a]) <=>
                          /\ q \in Elements(queues[a])
                          /\ <<a, q>> \in T /\ Scannable(<<a, q>>) => ids'[<<a, q>>] # <<>>
             /\ NoDuplicates(queues[a]) => NoDuplicates(queues'[a])
  <2>1. queues'[a] = Kept(queues[a], L(a)) /\ queues[a] \in Seq(Queues)
    BY <1>1, <1>2
  <2>2. Elements(queues[a]) \subseteq Queues
    BY <2>1, ElementsInside
  <2>3. queues'[a] \in Seq(Queues) /\ Elements(queues'[a]) = Elements(queues[a]) \cap L(a)
    BY <2>1, KeptElements
  <2> QED BY <2>1, <2>2, <2>3, KeptNoDuplicates DEF L, gone
<1>5. /\ accounts' \in Seq(Accounts)
      /\ Elements(accounts') = Elements(accounts) \cap M
      /\ NoDuplicates(accounts) => NoDuplicates(accounts')
  BY <1>1, <1>2, KeptElements, KeptNoDuplicates
<1>6. \A a : a \in Elements(accounts') <=>
         /\ a \in Elements(accounts)
         /\ (\E q \in Queues : <<a, q>> \in T /\ Scannable(<<a, q>>)) => queues'[a] # <<>>
  <2>1. Elements(accounts) \subseteq Accounts
    BY <1>2, ElementsInside
  <2> QED BY <1>5, <2>1 DEF M, gone
<1>7. ids' \in [Accounts \X Queues -> Seq(Ids)] /\ queues' \in [Accounts -> Seq(Queues)]
  BY <1>1, <1>3, <1>4
<1>8. \A a \in Accounts, q \in Queues :
         /\ \A m : m \in Elements(ids'[<<a, q>>]) <=>
                      m \in Elements(ids[<<a, q>>]) /\ <<a, q, m>> \notin S
         /\ NoDuplicates(ids[<<a, q>>]) => NoDuplicates(ids'[<<a, q>>])
  BY <1>3
<1> QED BY <1>1, <1>4, <1>5, <1>6, <1>7, <1>8

(* What the invariant says of the store, element by element. *)
LEMMA StoreFacts ==
    ASSUME IndInv
    PROVE  /\ accounts \in Seq(Accounts)
           /\ queues \in [Accounts -> Seq(Queues)]
           /\ ids \in [Accounts \X Queues -> Seq(Ids)]
           /\ Elements(accounts) \subseteq Accounts
           /\ \A a \in Accounts :
                 /\ Elements(queues[a]) \subseteq Queues
                 /\ queues[a] # <<>> <=> \E q : q \in Elements(queues[a])
                 /\ queues[a] # <<>> => a \in Elements(accounts) \ bare
                 /\ \A q \in Queues :
                       /\ ids[<<a, q>>] # <<>> <=> \E m : m \in Elements(ids[<<a, q>>])
                       /\ ids[<<a, q>>] # <<>> <=> q \in Elements(queues[a]) /\ <<a, q>> \notin bare
                       /\ <<a, q>> \in bare => q \in Elements(queues[a])
<1>1. /\ accounts \in Seq(Accounts)
      /\ queues \in [Accounts -> Seq(Queues)]
      /\ ids \in [Accounts \X Queues -> Seq(Ids)]
  BY DEF IndInv, TypeOK
<1>2. \A a \in Accounts : /\ Elements(queues[a]) \subseteq Queues
                         /\ queues[a] # <<>> <=> \E q : q \in Elements(queues[a])
  BY <1>1, ElementsInside
<1>3. \A p \in Accounts \X Queues : ids[p] # <<>> <=> \E m : m \in Elements(ids[p])
  BY <1>1, ElementsInside
<1>4. Elements(accounts) \subseteq Accounts
  BY <1>1, ElementsInside
<1> QED BY <1>1, <1>2, <1>3, <1>4 DEF IndInv, StoreConsistent

(***************************************************************************)
(* Erasing messages keeps the levels of dictionaries together, if the      *)
(* queues they are erased from are looked at, and leaves no account behind.*)
(***************************************************************************)
LEMMA EraseKeeps ==
    ASSUME IndInv, NEW S \in SUBSET Keys, NEW T \in SUBSET (Accounts \X Queues), Erase(S, T),
           \A k \in S : <<k[1], k[2]>> \in T,
           \A k \in Keys : k \in S \/ ~Stored(k) => msg'[k] = NoMessage
    PROVE  /\ StoreConsistent'
           /\ KeysNamed'
           /\ \A k \in Keys : Stored(k)' <=> Stored(k) /\ k \notin S
           /\ Vacant' \subseteq Vacant
<1>1. /\ accounts' \in Seq(Accounts)
      /\ queues' \in [Accounts -> Seq(Queues)]
      /\ ids' \in [Accounts \X Queues -> Seq(Ids)]
      /\ bare' = bare
  BY EraseLeaves DEF IndInv
<1>2. ASSUME NEW a \in Accounts, NEW q \in Queues
      PROVE  /\ \A m : m \in Elements(ids'[<<a, q>>]) <=>
                          m \in Elements(ids[<<a, q>>]) /\ <<a, q, m>> \notin S
             /\ ids'[<<a, q>>] # <<>> <=> \E m : m \in Elements(ids'[<<a, q>>])
             /\ NoDuplicates(ids'[<<a, q>>])
  <2>1. ids'[<<a, q>>] # <<>> <=> \E m : m \in Elements(ids'[<<a, q>>])
    <3>1. ids'[<<a, q>>] \in Seq(Ids)
      BY <1>1
    <3> QED BY <3>1, ElementsInside
  <2>2. NoDuplicates(ids[<<a, q>>])
    BY DEF IndInv, StoreConsistent
  <2> QED BY <2>1, <2>2, EraseLeaves DEF IndInv
<1>3. ASSUME NEW a \in Accounts
      PROVE  /\ \A q : q \in Elements(queues'[a]) <=>
                          /\ q \in Elements(queues[a])
                          /\ <<a, q>> \in T /\ Scannable(<<a, q>>) => ids'[<<a, q>>] # <<>>
             /\ queues'[a] # <<>> <=> \E q : q \in Elements(queues'[a])
             /\ NoDuplicates(queues'[a])
  <2>1. queues'[a] # <<>> <=> \E q : q \in Elements(queues'[a])
    <3>1. queues'[a] \in Seq(Queues)
      BY <1>1
    <3> QED BY <3>1, ElementsInside
  <2>2. NoDuplicates(queues[a])
    BY DEF IndInv, StoreConsistent
  <2> QED BY <2>1, <2>2, EraseLeaves DEF IndInv
<1>4. /\ \A a : a \in Elements(accounts') <=>
            /\ a \in Elements(accounts)
            /\ (\E q \in Queues : <<a, q>> \in T /\ Scannable(<<a, q>>)) => queues'[a] # <<>>
      /\ NoDuplicates(accounts')
  BY EraseLeaves DEF IndInv, StoreConsistent
<1>5. ASSUME NEW a \in Accounts, NEW q \in Queues
      PROVE  /\ ids'[<<a, q>>] # <<>> <=> q \in Elements(queues'[a]) /\ <<a, q>> \notin bare'
             /\ <<a, q>> \in bare' => q \in Elements(queues'[a])
  <2>1. Scannable(<<a, q>>) <=> q \in Elements(queues[a]) /\ <<a, q>> \notin bare
    BY DEF Scannable
  <2>2. <<a, q>> \in bare' => q \in Elements(queues'[a])
    BY <1>1, <1>3, <2>1, StoreFacts
  <2>3. ASSUME ids'[<<a, q>>] # <<>>
        PROVE  q \in Elements(queues'[a]) /\ <<a, q>> \notin bare'
    BY <1>1, <1>2, <1>3, <2>1, <2>3, StoreFacts
  <2>4. ASSUME q \in Elements(queues'[a]), <<a, q>> \notin bare' PROVE ids'[<<a, q>>] # <<>>
    <3>1. Scannable(<<a, q>>) /\ ids[<<a, q>>] # <<>>
      BY <1>1, <1>3, <2>1, <2>4, StoreFacts
    <3>2. CASE <<a, q>> \in T
      BY <1>3, <2>4, <3>1, <3>2
    <3>3. CASE <<a, q>> \notin T
      <4>1. PICK m : m \in Elements(ids[<<a, q>>])
        BY <3>1, StoreFacts
      <4>2. <<a, q, m>> \notin S
        BY <3>3
      <4> QED BY <1>2, <4>1, <4>2
    <3> QED BY <3>2, <3>3
  <2> QED BY <2>2, <2>3, <2>4
<1>6. ASSUME NEW a \in Accounts, queues'[a] # <<>> PROVE a \in Elements(accounts') \ bare'
  <2>1. queues[a] # <<>>
    BY <1>3, <1>6, StoreFacts
  <2> QED BY <1>1, <1>4, <1>6, <2>1, StoreFacts
<1>7. ASSUME NEW k \in Keys PROVE Stored(k)' <=> Stored(k) /\ k \notin S
  <2>1. k[1] \in Accounts /\ k[2] \in Queues /\ k = <<k[1], k[2], k[3]>>
    BY KeyParts
  <2> QED BY <1>2, <2>1 DEF Stored
<1>8. StoreConsistent'
  <2>1. \A k \in Keys : ~Stored(k)' => msg'[k] = NoMessage
    BY <1>7
  <2> QED BY <1>2, <1>3, <1>4, <1>5, <1>6, <2>1 DEF StoreConsistent
<1>9. KeysNamed'
  BY <1>2 DEF IndInv, KeysNamed
<1>10. Vacant' \subseteq Vacant
  <2> SUFFICES ASSUME NEW a \in Elements(accounts'), queues'[a] = <<>>
               PROVE  a \in Elements(accounts) /\ queues[a] = <<>>
    BY DEF Vacant
  <2>1. /\ a \in Elements(accounts) /\ a \in Accounts
        /\ \A q \in Queues : ~ (<<a, q>> \in T /\ Scannable(<<a, q>>))
    BY <1>4, StoreFacts
  <2> QED BY <1>3, <2>1, StoreFacts
<1> QED BY <1>7, <1>8, <1>9, <1>10

-----------------------------------------------------------------------------
(* Deadlines *)

GivenAttributes == [set : SUBSET {"ttl", "hide"}, ttl : Nat, hide : Nat]

(* A message created with its deadlines. *)
LEMMA NewTimely ==
    ASSUME now \in 1..MaxTime, NEW ttl \in Nat, NEW hide \in Nat
    PROVE  LET m == [ttl |-> Wrap(now + ttl), hide |-> IF hide = 0 THEN 0 ELSE Wrap(now + hide),
                     expiresAt |-> now + ttl, hiddenUntil |-> now + hide]
           IN  m \in Message /\ Timely(m)
<1>1. now + ttl \in Nat /\ now + hide \in Nat
  OBVIOUS
<1>2. /\ Wrap(now + ttl) \in 0..Modulus-1 /\ Wrap(now + hide) \in 0..Modulus-1
      /\ now + ttl < Modulus => Wrap(now + ttl) = now + ttl
      /\ now + hide < Modulus => Wrap(now + hide) = now + hide
  BY <1>1, WrapFits
<1> QED BY <1>1, <1>2 DEF Message, Timely

(* An update keeps the deadlines that are not set, and sets the others. *)
LEMMA UpdateTimely ==
    ASSUME now \in 1..MaxTime, NEW m \in Message, Timely(m), NEW at \in GivenAttributes
    PROVE  LET new == ScanUpdate(m, at)
           IN  /\ new \in Message /\ Timely(new)
               /\ m.ttl > now /\ new.expiresAt < Modulus => new.expiresAt >= now
<1> DEFINE t == at.ttl + now
           h == at.hide + now
           new == ScanUpdate(m, at)
<1>1. t \in Nat /\ h \in Nat /\ t > 0 /\ h > 0 /\ t >= now /\ h >= now
  BY DEF GivenAttributes
<1>2. /\ Wrap(t) \in 0..Modulus-1 /\ Wrap(h) \in 0..Modulus-1
      /\ t < Modulus => Wrap(t) = t
      /\ h < Modulus => Wrap(h) = h
  BY <1>1, WrapFits
<1>3. /\ new.ttl = IF "ttl" \in at.set /\ Wrap(t) # 0 THEN Wrap(t) ELSE m.ttl
      /\ new.hide = IF "hide" \in at.set /\ Wrap(h) # 0 THEN Wrap(h) ELSE m.hide
      /\ new.expiresAt = IF "ttl" \in at.set THEN t ELSE m.expiresAt
      /\ new.hiddenUntil = IF "hide" \in at.set THEN h ELSE m.hiddenUntil
      /\ new = [ttl |-> new.ttl, hide |-> new.hide, expiresAt |-> new.expiresAt,
                hiddenUntil |-> new.hiddenUntil]
  BY DEF ScanUpdate
<1>4. /\ m.ttl \in 0..Modulus-1 /\ m.hide \in 0..Modulus-1
      /\ m.expiresAt \in Nat /\ m.hiddenUntil \in Nat
  BY DEF Message
<1> HIDE DEF t, h, new
<1>5. new \in Message
  BY <1>1, <1>2, <1>3, <1>4 DEF Message
<1>6. new.expiresAt < Modulus => new.ttl = new.expiresAt
  BY <1>1, <1>2, <1>3, <1>4 DEF Timely
<1>7. new.hiddenUntil < Modulus =>
         new.hide = new.hiddenUntil \/ (new.hide <= now /\ new.hiddenUntil <= now)
  BY <1>1, <1>2, <1>3, <1>4 DEF Timely
<1>8. m.ttl > now /\ new.expiresAt < Modulus => new.expiresAt >= now
  BY <1>1, <1>3, <1>4 DEF Timely
<1>9. Timely(new)
  BY <1>6, <1>7 DEF Timely
<1> QED BY <1>5, <1>8, <1>9 DEF new

(* What is reported of a timely message is what is left of its deadlines. *)
TellsTruth(r, m) ==
    /\ m.expiresAt < Modulus => r.ttl = m.expiresAt - now
    /\ m.hiddenUntil < Modulus =>
          r.hide = IF m.hiddenUntil > now THEN m.hiddenUntil - now ELSE 0

LEMMA ReportTrue ==
    ASSUME now \in 1..MaxTime, NEW k \in Keys, NEW m \in Message, NEW marked \in BOOLEAN
    PROVE  /\ Report(k, m, marked) \in MessageReport
           /\ Report(k, m, marked).key = k /\ Report(k, m, marked).marked = marked
           /\ Timely(m) /\ (m.expiresAt < Modulus => m.expiresAt >= now)
                 => TellsTruth(Report(k, m, marked), m)
<1> DEFINE r == Report(k, m, marked)
<1>1. /\ m.ttl \in 0..Modulus-1 /\ m.hide \in 0..Modulus-1
      /\ m.expiresAt \in Nat /\ m.hiddenUntil \in Nat
  BY DEF Message
<1>2. m.ttl + Modulus - now \in Nat
  BY <1>1
<1>3. Wrap(m.ttl + Modulus - now) \in Nat
  BY <1>2, WrapFits
<1>4. m.ttl >= now => Wrap(m.ttl + Modulus - now) = m.ttl - now
  <2> SUFFICES ASSUME m.ttl >= now PROVE Wrap(m.ttl + Modulus - now) = m.ttl - now
    OBVIOUS
  <2>1. m.ttl - now \in Nat /\ m.ttl - now < Modulus
    BY <1>1
  <2>2. Wrap((m.ttl - now) + Modulus) = m.ttl - now
    BY <2>1, WrapFits
  <2>3. (m.ttl - now) + Modulus = m.ttl + Modulus - now
    BY <1>1
  <2> QED BY <2>2, <2>3
<1>5. /\ r.key = k /\ r.marked = marked
      /\ r.ttl = Wrap(m.ttl + Modulus - now)
      /\ r.hide = IF m.hide > now THEN m.hide - now ELSE 0
      /\ r = [key |-> k, marked |-> marked, ttl |-> r.ttl, hide |-> r.hide]
  BY DEF Report
<1> HIDE DEF r
<1>6. r \in MessageReport
  BY <1>1, <1>3, <1>5 DEF MessageReport
<1>7. ASSUME Timely(m), m.expiresAt < Modulus => m.expiresAt >= now PROVE TellsTruth(r, m)
  BY <1>1, <1>4, <1>5, <1>7 DEF Timely, TellsTruth
<1> QED BY <1>5, <1>6, <1>7 DEF r

-----------------------------------------------------------------------------
(* Scanning *)

(* A scan passes over stored messages of its queue, and all of them without a filter. *)
LEMMA ScannedKeys ==
    ASSUME IndInv, NEW a \in Accounts, NEW q \in Queues, NEW f, f.limit \in Nat
    PROVE  /\ Scanned(a, q, f) \in Seq(Keys)
           /\ \A k \in Elements(Scanned(a, q, f)) :
                 k \in Keys /\ k[1] = a /\ k[2] = q /\ Stored(k)
           /\ f.limit = 0 /\ f.marker = NULL =>
                 \A k \in Keys : k[1] = a /\ k[2] = q /\ Stored(k)
                                    => k \in Elements(Scanned(a, q, f))
<1> DEFINE s == ids[<<a, q>>]
           w == Window(s, f)
           t == Scanned(a, q, f)
<1>1. s \in Seq(Ids) /\ Elements(s) \subseteq Ids
  BY StoreFacts, ElementsInside
<1>2. /\ w \in Seq(Ids)
      /\ Elements(w) \subseteq Elements(s)
      /\ f.limit = 0 /\ f.marker \notin Elements(s) => w = s
  <2> HIDE DEF s
  <2> QED BY <1>1, WindowIsPart DEF Window
<1>3. t = [i \in DOMAIN w |-> <<a, q, w[i]>>]
  BY DEF Scanned
<1> HIDE DEF s, w, t
<1>4. DOMAIN w = 1..Len(w) /\ Len(w) \in Nat
  BY <1>2
<1>5. ASSUME NEW i \in 1..Len(w) PROVE <<a, q, w[i]>> \in Keys /\ w[i] \in Elements(s)
  <2>1. w[i] \in Elements(s)
    BY <1>2, <1>4 DEF Elements
  <2> QED BY <2>1 DEF IndInv, KeysNamed, s
<1>6. t \in Seq(Keys) /\ DOMAIN t = 1..Len(w)
  BY <1>3, <1>4, <1>5
<1>7. ASSUME NEW k \in Elements(t) PROVE k \in Keys /\ k[1] = a /\ k[2] = q /\ Stored(k)
  <2>1. PICK i \in 1..Len(w) : k = <<a, q, w[i]>>
    BY <1>3, <1>4, <1>6, <1>7 DEF Elements
  <2> QED BY <1>5, <2>1 DEF Stored, s
<1>8. ASSUME f.limit = 0, f.marker = NULL, NEW k \in Keys, k[1] = a, k[2] = q, Stored(k)
      PROVE  k \in Elements(t)
  <2>1. w = s
    BY <1>1, <1>2, <1>8
  <2>2. PICK i \in 1..Len(w) : k[3] = w[i]
    BY <1>4, <1>8, <2>1 DEF Stored, Elements, s
  <2>3. k = <<a, q, w[i]>>
    BY <1>8, <2>2, KeyParts
  <2>4. t[i] = k
    BY <1>3, <1>4, <2>3
  <2> QED BY <1>6, <2>4 DEF Elements
<1> QED BY <1>6, <1>7, <1>8 DEF t

(* What a scan deletes and what it acts on. *)
LEMMA ScanSets ==
    ASSUME IndInv, NEW a \in Accounts, NEW q \in Queues, NEW f, f.limit \in Nat
    PROVE  /\ ExpiredIn(a, q, f) \in SUBSET Keys
           /\ Matched(a, q, f) \in SUBSET Keys
           /\ \A k \in ExpiredIn(a, q, f) : Stored(k) /\ Expired(k) /\ k[1] = a /\ k[2] = q
           /\ \A k \in Matched(a, q, f) :
                 /\ Stored(k) /\ ~Expired(k) /\ k[1] = a /\ k[2] = q
                 /\ f.match_hidden \/ ~Hidden(k)
BY ScannedKeys DEF ExpiredIn, Matched

(* Deleting queues deletes messages of the queues that are scanned. *)
LEMMA AwaySets ==
    ASSUME IndInv, NEW T \in SUBSET (Accounts \X Queues)
    PROVE  /\ ScannedAway(T) \in SUBSET Keys
           /\ \A k \in ScannedAway(T) : <<k[1], k[2]>> \in T /\ Stored(k)
           /\ \A k \in Keys : Stored(k) /\ <<k[1], k[2]>> \in T /\ k \notin ScannedAway(T)
                                 => Hidden(k) /\ ~Expired(k)
<1>1. DefaultFilter.limit = 0 /\ DefaultFilter.marker = NULL /\ DefaultFilter.match_hidden = FALSE
  BY DEF DefaultFilter
<1> DEFINE Away(p) == ExpiredIn(p[1], p[2], DefaultFilter) \cup Matched(p[1], p[2], DefaultFilter)
<1>2. ASSUME NEW p \in T
      PROVE  /\ Away(p) \in SUBSET Keys
             /\ \A k \in Away(p) : <<k[1], k[2]>> = p /\ Stored(k)
  <2>1. p[1] \in Accounts /\ p[2] \in Queues /\ p = <<p[1], p[2]>> /\ DefaultFilter.limit \in Nat
    BY <1>1
  <2> QED BY <2>1, ScanSets
<1>3. ScannedAway(T) = UNION {Away(p) : p \in T}
  BY DEF ScannedAway
<1>4. ASSUME NEW k \in Keys, Stored(k), <<k[1], k[2]>> \in T, k \notin ScannedAway(T)
      PROVE  Hidden(k) /\ ~Expired(k)
  <2>1. k[1] \in Accounts /\ k[2] \in Queues
    BY KeyParts
  <2>2. k \in Elements(Scanned(k[1], k[2], DefaultFilter))
    BY <1>1, <1>4, <2>1, ScannedKeys
  <2>3. k \notin Away(<<k[1], k[2]>>)
    BY <1>3, <1>4
  <2> QED BY <1>1, <2>2, <2>3 DEF ExpiredIn, Matched
<1> HIDE DEF Away
<1> QED BY <1>2, <1>3, <1>4

-----------------------------------------------------------------------------
(* Creating *)

LEMMA PutKeeps ==
    ASSUME IndInv, NEW k \in Keys, NEW at \in GivenAttributes, Put(k, at)
    PROVE  /\ accounts' \in Seq(Accounts)
           /\ queues' \in [Accounts -> Seq(Queues)]
           /\ ids' \in [Accounts \X Queues -> Seq(Ids)]
           /\ bare' = bare
           /\ msg' \in [Keys -> Message]
           /\ StoreConsistent'
           /\ KeysNamed'
           /\ \A x \in Keys : Stored(x)' <=> Stored(x) \/ x = k
           /\ Vacant' \subseteq Vacant
<1> DEFINE a == k[1]
           q == k[2]
           p == <<k[1], k[2]>>
<1>1. a \in Accounts /\ q \in Queues /\ k[3] \in Ids /\ p \in Accounts \X Queues
      /\ k = <<a, q, k[3]>>
  BY KeyParts
<1>2. /\ a \notin bare /\ p \notin bare /\ bare' = bare
      /\ accounts' = AccountsWith(a)
      /\ queues' = QueuesWith(a, q)
      /\ ids' = IF Stored(k) THEN ids ELSE [ids EXCEPT ![p] = Append(@, k[3])]
  BY DEF Put
<1>3. msg' \in [Keys -> Message] /\ \A x \in Keys : x # k => msg'[x] = msg[x]
  <2> DEFINE ttl == IF "ttl" \in at.set THEN at.ttl ELSE DefaultTtl
             hide == IF "hide" \in at.set THEN at.hide ELSE 0
             new == [ttl |-> Wrap(now + ttl), hide |-> IF hide = 0 THEN 0 ELSE Wrap(now + hide),
                     expiresAt |-> now + ttl, hiddenUntil |-> now + hide]
  <2>1. msg' = [msg EXCEPT ![k] = new]
    BY DEF Put
  <2>2. ttl \in Nat /\ hide \in Nat /\ now \in 1..MaxTime
    BY DEF GivenAttributes, IndInv, TypeOK
  <2> HIDE DEF ttl, hide
  <2>3. new \in Message
    BY <2>2, NewTimely
  <2>4. msg \in [Keys -> Message]
    BY DEF IndInv, TypeOK
  <2> HIDE DEF new
  <2> QED BY <2>1, <2>3, <2>4
<1> HIDE DEF a, q, p
<1>4. /\ accounts' \in Seq(Accounts) /\ NoDuplicates(accounts')
      /\ Elements(accounts') = Elements(accounts) \cup {a}
  <2>1. accounts \in Seq(Accounts) /\ NoDuplicates(accounts)
    BY DEF IndInv, TypeOK, StoreConsistent
  <2> QED BY <1>1, <1>2, <2>1, AppendNew DEF AccountsWith
<1>5. /\ queues' \in [Accounts -> Seq(Queues)]
      /\ \A b \in Accounts : b # a => queues'[b] = queues[b]
      /\ NoDuplicates(queues'[a])
      /\ Elements(queues'[a]) = Elements(queues[a]) \cup {q}
  <2>1. queues \in [Accounts -> Seq(Queues)] /\ \A b \in Accounts : NoDuplicates(queues[b])
    BY DEF IndInv, TypeOK, StoreConsistent
  <2>2. CASE q \in Elements(queues[a])
    BY <1>1, <1>2, <2>1, <2>2 DEF QueuesWith
  <2>3. CASE q \notin Elements(queues[a])
    <3>1. queues' = [queues EXCEPT ![a] = Append(queues[a], q)]
      BY <1>2, <2>3 DEF QueuesWith
    <3>2. queues[a] \in Seq(Queues) /\ NoDuplicates(queues[a])
      BY <1>1, <2>1
    <3>3. /\ Append(queues[a], q) \in Seq(Queues)
          /\ NoDuplicates(Append(queues[a], q))
          /\ Elements(Append(queues[a], q)) = Elements(queues[a]) \cup {q}
      BY <1>1, <2>3, <3>2, AppendNew
    <3> QED BY <1>1, <2>1, <3>1, <3>3
  <2> QED BY <2>2, <2>3
<1>6. /\ ids' \in [Accounts \X Queues -> Seq(Ids)]
      /\ \A r \in Accounts \X Queues : r # p => ids'[r] = ids[r]
      /\ NoDuplicates(ids'[p])
      /\ Elements(ids'[p]) = Elements(ids[p]) \cup {k[3]}
  <2>1. ids \in [Accounts \X Queues -> Seq(Ids)] /\ NoDuplicates(ids[p])
    BY <1>1 DEF IndInv, TypeOK, StoreConsistent, p
  <2>2. Stored(k) <=> k[3] \in Elements(ids[p])
    BY DEF Stored, p
  <2>3. CASE Stored(k)
    BY <1>2, <2>1, <2>2, <2>3
  <2>4. CASE ~Stored(k)
    <3>1. ids' = [ids EXCEPT ![p] = Append(ids[p], k[3])]
      BY <1>2, <2>4
    <3>2. /\ Append(ids[p], k[3]) \in Seq(Ids)
          /\ NoDuplicates(Append(ids[p], k[3]))
          /\ Elements(Append(ids[p], k[3])) = Elements(ids[p]) \cup {k[3]}
      BY <1>1, <2>1, <2>2, <2>4, AppendNew
    <3> QED BY <1>1, <2>1, <3>1, <3>2
  <2> QED BY <2>3, <2>4
<1>7. ASSUME NEW x \in Keys PROVE Stored(x)' <=> Stored(x) \/ x = k
  <2>1. x = <<x[1], x[2], x[3]>> /\ <<x[1], x[2]>> \in Accounts \X Queues
    BY KeyParts
  <2>2. Stored(x) <=> x[3] \in Elements(ids[<<x[1], x[2]>>])
    BY DEF Stored
  <2>3. Stored(x)' <=> x[3] \in Elements(ids'[<<x[1], x[2]>>])
    BY DEF Stored
  <2>4. <<x[1], x[2]>> = p /\ x[3] = k[3] <=> x = k
    BY <1>1, <2>1 DEF a, q, p
  <2> QED BY <1>6, <2>1, <2>2, <2>3, <2>4
<1>8. KeysNamed'
  <2> SUFFICES ASSUME NEW b \in Accounts, NEW r \in Queues, NEW m \in Elements(ids'[<<b, r>>])
               PROVE  <<b, r, m>> \in Keys
    BY DEF KeysNamed
  <2>1. <<b, r>> = p => b = a /\ r = q
    BY DEF p, a, q
  <2> QED BY <1>1, <1>6, <2>1 DEF IndInv, KeysNamed
<1>9. StoreConsistent'
  <2>1. ASSUME NEW x \in Keys, ~Stored(x)' PROVE msg'[x] = NoMessage
    BY <1>3, <1>7, <2>1 DEF IndInv, StoreConsistent
  <2>2. ASSUME NEW b \in Accounts
        PROVE  NoDuplicates(queues'[b]) /\ (queues'[b] # <<>> => b \in Elements(accounts') \ bare')
    BY <1>2, <1>4, <1>5 DEF IndInv, StoreConsistent
  <2>3. ASSUME NEW b \in Accounts, NEW r \in Queues
        PROVE  /\ NoDuplicates(ids'[<<b, r>>])
               /\ ids'[<<b, r>>] # <<>> <=> r \in Elements(queues'[b]) /\ <<b, r>> \notin bare'
               /\ <<b, r>> \in bare' => r \in Elements(queues'[b])
    <3>1. /\ NoDuplicates(ids[<<b, r>>])
          /\ ids[<<b, r>>] # <<>> <=> r \in Elements(queues[b]) /\ <<b, r>> \notin bare
          /\ <<b, r>> \in bare => r \in Elements(queues[b])
      BY DEF IndInv, StoreConsistent
    <3>2. <<b, r>> \in Accounts \X Queues /\ (<<b, r>> = p <=> b = a /\ r = q)
      BY DEF p, a, q
    <3>3. CASE <<b, r>> = p
      <4>1. k[3] \in Elements(ids'[p])
        BY <1>6
      <4>2. ids'[p] # <<>>
        <5>1. ids'[p] \in Seq(Ids)
          BY <1>1, <1>6
        <5> QED BY <4>1, <5>1, ElementsInside
      <4>3. q \in Elements(queues'[a])
        BY <1>5
      <4> QED BY <1>2, <1>6, <3>2, <3>3, <4>2, <4>3
    <3>4. CASE <<b, r>> # p
      <4>1. ids'[<<b, r>>] = ids[<<b, r>>]
        BY <1>6, <3>2, <3>4
      <4>2. r \in Elements(queues'[b]) <=> r \in Elements(queues[b])
        BY <1>5, <3>2, <3>4
      <4> QED BY <1>2, <3>1, <4>1, <4>2
    <3> QED BY <3>3, <3>4
  <2> QED BY <1>4, <2>1, <2>2, <2>3 DEF StoreConsistent
<1>10. Vacant' \subseteq Vacant
  <2> SUFFICES ASSUME NEW b \in Elements(accounts'), queues'[b] = <<>>
               PROVE  b \in Elements(accounts) /\ queues[b] = <<>>
    BY DEF Vacant
  <2>1. queues'[a] # <<>>
    <3>1. queues'[a] \in Seq(Queues) /\ q \in Elements(queues'[a])
      BY <1>1, <1>5
    <3> QED BY <3>1, ElementsInside
  <2>2. b \in Elements(accounts) /\ b \in Accounts /\ b # a
    BY <1>4, <2>1, StoreFacts
  <2> QED BY <1>5, <2>2
<1> QED BY <1>2, <1>3, <1>4, <1>5, <1>6, <1>7, <1>8, <1>9, <1>10

LEMMA PutFailsKeeps ==
    ASSUME IndInv, NEW k \in Keys, PutFails(k)
    PROVE  /\ accounts' \in Seq(Accounts)
           /\ queues' \in [Accounts -> Seq(Queues)]
           /\ bare' \subseteq Accounts \cup (Accounts \X Queues)
           /\ StoreConsistent'
<1> DEFINE a == k[1]
           q == k[2]
<1>1. a \in Accounts /\ q \in Queues
  BY KeyParts
<1>2. /\ accounts \in Seq(Accounts) /\ NoDuplicates(accounts)
      /\ queues \in [Accounts -> Seq(Queues)]
      /\ bare \subseteq Accounts \cup (Accounts \X Queues)
      /\ \A b \in Accounts : NoDuplicates(queues[b])
      /\ \A b \in Accounts : queues[b] # <<>> => b \in Elements(accounts) \ bare
  BY DEF IndInv, TypeOK, StoreConsistent
<1>3. ASSUME NEW b \in Accounts, NEW r \in Queues
      PROVE  /\ NoDuplicates(ids[<<b, r>>])
             /\ ids[<<b, r>>] # <<>> <=> r \in Elements(queues[b]) /\ <<b, r>> \notin bare
             /\ <<b, r>> \in bare => r \in Elements(queues[b])
  BY DEF IndInv, StoreConsistent
<1>4. ids' = ids /\ msg' = msg
  BY DEF PutFails
<1>5. \A x \in Keys : ~Stored(x)' => msg'[x] = NoMessage
  BY <1>4 DEF IndInv, StoreConsistent, Stored
<1>6. \A b \in Accounts, c \in Accounts, r \in Queues : b # <<c, r>>
  BY DEF NamesAssumption
<1>7. /\ AccountsWith(a) \in Seq(Accounts) /\ NoDuplicates(AccountsWith(a))
      /\ Elements(AccountsWith(a)) = Elements(accounts) \cup {a}
  <2> HIDE DEF a
  <2> QED BY <1>1, <1>2, AppendNew DEF AccountsWith
<1>8. CASE UNCHANGED <<accounts, queues, bare>>
  <2>1. \A b \in Accounts, r \in Queues :
           /\ NoDuplicates(ids'[<<b, r>>])
           /\ ids'[<<b, r>>] # <<>> <=> r \in Elements(queues'[b]) /\ <<b, r>> \notin bare'
           /\ <<b, r>> \in bare' => r \in Elements(queues'[b])
    BY <1>3, <1>4, <1>8
  <2> QED BY <1>2, <1>5, <1>8, <2>1 DEF StoreConsistent
<1>9. CASE accounts' = AccountsWith(a) /\ bare' = bare \cup {a} /\ UNCHANGED queues
           /\ a \notin Elements(accounts)
  <2>1. ASSUME NEW b \in Accounts, queues'[b] # <<>> PROVE b \in Elements(accounts') \ bare'
    BY <1>2, <1>7, <1>9, <2>1
  <2>2. ASSUME NEW b \in Accounts, NEW r \in Queues PROVE <<b, r>> \in bare' <=> <<b, r>> \in bare
    BY <1>1, <1>6, <1>9
  <2>3. \A b \in Accounts, r \in Queues :
           /\ NoDuplicates(ids'[<<b, r>>])
           /\ ids'[<<b, r>>] # <<>> <=> r \in Elements(queues'[b]) /\ <<b, r>> \notin bare'
           /\ <<b, r>> \in bare' => r \in Elements(queues'[b])
    BY <1>3, <1>4, <1>9, <2>2
  <2>4. bare' \subseteq Accounts \cup (Accounts \X Queues)
    BY <1>1, <1>2, <1>9
  <2> QED BY <1>2, <1>5, <1>7, <1>9, <2>1, <2>3, <2>4 DEF StoreConsistent
<1>10. CASE accounts' = Kept(accounts, Accounts \ {a}) /\ UNCHANGED <<queues, bare>>
            /\ queues[a] = <<>>
  <2>1. /\ accounts' \in Seq(Accounts) /\ NoDuplicates(accounts')
        /\ Elements(accounts') = Elements(accounts) \cap (Accounts \ {a})
    BY <1>2, <1>10, KeptElements, KeptNoDuplicates
  <2>2. ASSUME NEW b \in Accounts, queues'[b] # <<>> PROVE b \in Elements(accounts') \ bare'
    BY <1>2, <1>10, <2>1, <2>2
  <2>3. \A b \in Accounts, r \in Queues :
           /\ NoDuplicates(ids'[<<b, r>>])
           /\ ids'[<<b, r>>] # <<>> <=> r \in Elements(queues'[b]) /\ <<b, r>> \notin bare'
           /\ <<b, r>> \in bare' => r \in Elements(queues'[b])
    BY <1>3, <1>4, <1>10
  <2> QED BY <1>2, <1>5, <1>10, <2>1, <2>2, <2>3 DEF StoreConsistent
<1>11. CASE accounts' = AccountsWith(a) /\ queues' = QueuesWith(a, q) /\ bare' = bare \cup {<<a, q>>}
            /\ a \notin bare /\ q \notin Elements(queues[a])
  <2>1. queues[a] \in Seq(Queues) /\ NoDuplicates(queues[a])
    BY <1>1, <1>2
  <2>2. /\ Append(queues[a], q) \in Seq(Queues)
        /\ NoDuplicates(Append(queues[a], q))
        /\ Elements(Append(queues[a], q)) = Elements(queues[a]) \cup {q}
    BY <1>1, <1>11, <2>1, AppendNew
  <2>3. queues' = [queues EXCEPT ![a] = Append(queues[a], q)]
    BY <1>11 DEF QueuesWith
  <2>4. /\ queues' \in [Accounts -> Seq(Queues)]
        /\ \A b \in Accounts : b # a => queues'[b] = queues[b]
        /\ queues'[a] = Append(queues[a], q)
    BY <1>1, <1>2, <2>2, <2>3
  <2>5. ASSUME NEW b \in Accounts
        PROVE  /\ NoDuplicates(queues'[b])
               /\ queues'[b] # <<>> => b \in Elements(accounts') \ bare'
    <3>1. b \in bare' <=> b \in bare
      BY <1>1, <1>6, <1>11
    <3> QED BY <1>2, <1>7, <1>11, <2>2, <2>4, <3>1
  <2>6. ASSUME NEW b \in Accounts, NEW r \in Queues
        PROVE  /\ NoDuplicates(ids'[<<b, r>>])
               /\ ids'[<<b, r>>] # <<>> <=> r \in Elements(queues'[b]) /\ <<b, r>> \notin bare'
               /\ <<b, r>> \in bare' => r \in Elements(queues'[b])
    <3>1. r \in Elements(queues'[b]) <=> r \in Elements(queues[b]) \/ <<b, r>> = <<a, q>>
      BY <2>2, <2>4
    <3>2. ids[<<a, q>>] = <<>>
      BY <1>1, <1>3, <1>11
    <3> HIDE DEF a, q
    <3> QED BY <1>3, <1>4, <1>11, <3>1, <3>2
  <2>7. bare' \subseteq Accounts \cup (Accounts \X Queues)
    BY <1>1, <1>2, <1>11
  <2> QED BY <1>5, <1>7, <1>11, <2>4, <2>5, <2>6, <2>7 DEF StoreConsistent
<1>12. CASE accounts' = AccountsWith(a) /\ UNCHANGED <<queues, bare>>
  <2>1. ASSUME NEW b \in Accounts, queues'[b] # <<>> PROVE b \in Elements(accounts') \ bare'
    BY <1>2, <1>7, <1>12, <2>1
  <2>2. \A b \in Accounts, r \in Queues :
           /\ NoDuplicates(ids'[<<b, r>>])
           /\ ids'[<<b, r>>] # <<>> <=> r \in Elements(queues'[b]) /\ <<b, r>> \notin bare'
           /\ <<b, r>> \in bare' => r \in Elements(queues'[b])
    BY <1>3, <1>4, <1>12
  <2> QED BY <1>2, <1>5, <1>7, <1>12, <2>1, <2>2 DEF StoreConsistent
<1> QED BY <1>8, <1>9, <1>10, <1>11, <1>12 DEF PutFails

-----------------------------------------------------------------------------
(* What each step does: the action properties, without the box *)

VacantStep == Vacant' \subseteq Vacant \/ (last'.op = "create_message" /\ last'.failed)

HiddenStep ==
    last'.op \in {"get_messages", "update_messages", "delete_messages"}
          /\ ~last'.filter.match_hidden
       => \A r \in MessagesReported :
             msg[r.key].hiddenUntil < Modulus => msg[r.key].hiddenUntil <= now

DestroyStep ==
    handle = "open" /\ handle' = "destroyed" /\ ~last'.failed
       => \A k \in Keys : Stored(k)' => Hidden(k)

ReportStep ==
    \A r \in MessagesReported :
       LET asked == IF Stored(r.key)' THEN msg'[r.key] ELSE msg[r.key]
       IN  /\ last'.op \in {"get_messages", "update_messages", "delete_messages"}
                 => r.marked
           /\ asked.expiresAt < Modulus => r.ttl = asked.expiresAt - now
           /\ asked.hiddenUntil < Modulus =>
                 r.hide = IF asked.hiddenUntil > now THEN asked.hiddenUntil - now ELSE 0

OrderStep ==
    \A p \in Accounts \X Queues : \A i, j \in DOMAIN ids[p] :
       i < j => ~ \E x, y \in DOMAIN ids'[p] :
                     x < y /\ ids'[p][x] = ids[p][j] /\ ids'[p][y] = ids[p][i]

StepOK == VacantStep /\ HiddenStep /\ DestroyStep /\ ReportStep /\ OrderStep

LastOK ==
    /\ last.op \in Ops
    /\ last.failed \in BOOLEAN
    /\ last.reported \in Seq(Reports)
    /\ last.ret \in {"0", "EINVAL"}

(* A step that leaves, thins out or extends each queue keeps the order of its messages. *)
LEMMA OrderFromIds ==
    ASSUME IndInv,
           \A p \in Accounts \X Queues :
              \/ ids'[p] = ids[p]
              \/ \E S : ids'[p] = Kept(ids[p], S)
              \/ \E m \in Ids : m \notin Elements(ids[p]) /\ ids'[p] = Append(ids[p], m)
    PROVE  OrderStep
<1> SUFFICES ASSUME NEW p \in Accounts \X Queues,
                    NEW i \in DOMAIN ids[p], NEW j \in DOMAIN ids[p], i < j,
                    NEW x \in DOMAIN ids'[p], NEW y \in DOMAIN ids'[p], x < y,
                    ids'[p][x] = ids[p][j], ids'[p][y] = ids[p][i]
             PROVE  FALSE
  BY DEF OrderStep
<1>1. ids[p] \in Seq(Ids) /\ NoDuplicates(ids[p])
  <2>1. p[1] \in Accounts /\ p[2] \in Queues /\ p = <<p[1], p[2]>>
    OBVIOUS
  <2> QED BY <2>1 DEF IndInv, TypeOK, StoreConsistent
<1>2. DOMAIN ids[p] = 1..Len(ids[p]) /\ Len(ids[p]) \in Nat
  BY <1>1
<1>3. CASE ids'[p] = ids[p]
  <2>1. x = j /\ y = i
    BY <1>1, <1>3 DEF NoDuplicates
  <2> QED BY <1>2, <2>1
<1>4. CASE \E S : ids'[p] = Kept(ids[p], S)
  <2>1. PICK S : ids'[p] = Kept(ids[p], S)
    BY <1>4
  <2> QED BY <1>1, <2>1, KeptOrder
<1>5. CASE \E m \in Ids : m \notin Elements(ids[p]) /\ ids'[p] = Append(ids[p], m)
  <2>1. PICK m \in Ids : m \notin Elements(ids[p]) /\ ids'[p] = Append(ids[p], m)
    BY <1>5
  <2>2. /\ DOMAIN ids'[p] = 1..Len(ids[p])+1
        /\ \A n \in 1..Len(ids[p]) : ids'[p][n] = ids[p][n]
        /\ ids'[p][Len(ids[p])+1] = m
    BY <1>1, <2>1, AppendProperties
  <2>3. \A n \in 1..Len(ids[p]) : ids[p][n] # m
    BY <1>2, <2>1 DEF Elements
  <2>4. i \in 1..Len(ids[p]) /\ j \in 1..Len(ids[p])
    BY <1>2
  <2>5. x \in 1..Len(ids[p]) /\ y \in 1..Len(ids[p])
    <3>1. ids[p][i] # m /\ ids[p][j] # m
      BY <2>3, <2>4
    <3>2. x # Len(ids[p])+1 /\ y # Len(ids[p])+1
      BY <2>2, <3>1
    <3>3. x \in 1..Len(ids[p])+1 /\ y \in 1..Len(ids[p])+1
      BY <2>2
    <3>4. \A n \in Nat : \A z \in 1..n+1 : z # n+1 => z \in 1..n
      OBVIOUS
    <3> QED BY <1>2, <3>2, <3>3, <3>4, Zenon
  <2>6. ids[p][x] = ids[p][j] /\ ids[p][y] = ids[p][i]
    BY <2>2, <2>5
  <2>7. x = j /\ y = i
    BY <1>1, <1>2, <2>4, <2>5, <2>6 DEF NoDuplicates
  <2> QED BY <2>4, <2>7
<1> QED BY <1>3, <1>4, <1>5

(* Nothing but time and the last command changes. *)
LEMMA SameStore ==
    ASSUME IndInv, UNCHANGED store, now' \in 1..MaxTime, now <= now', LastOK',
           handle' \in {"open", "storeless", "destroyed", "crashed"}
    PROVE  IndInv' /\ VacantStep /\ OrderStep /\ \A k \in Keys : Stored(k)' <=> Stored(k)
<1>1. /\ accounts' = accounts /\ queues' = queues /\ ids' = ids /\ msg' = msg /\ bare' = bare
  BY DEF store
<1>2. TypeOK'
  BY <1>1 DEF IndInv, TypeOK, LastOK
<1>3. \A k \in Keys : Stored(k)' <=> Stored(k)
  BY <1>1 DEF Stored
<1>4. StoreConsistent'
  BY <1>1, <1>3 DEF IndInv, StoreConsistent
<1>5. KeysNamed'
  BY <1>1 DEF IndInv, KeysNamed
<1>6. DeadlinesKept'
  <2> SUFFICES ASSUME NEW k \in Keys PROVE Timely(msg[k])'
    BY DEF DeadlinesKept
  <2>1. Timely(msg[k]) /\ msg[k] \in Message /\ now \in Nat
    BY DEF IndInv, DeadlinesKept, TypeOK
  <2> QED BY <1>1, <2>1 DEF Timely, Message
<1>7. OrderStep
  BY <1>1, OrderFromIds
<1>8. VacantStep
  BY <1>1 DEF VacantStep, Vacant
<1> QED BY <1>2, <1>3, <1>4, <1>5, <1>6, <1>7, <1>8 DEF IndInv

(* A command that reports nothing. *)
LEMMA NothingReported ==
    ASSUME last'.reported = <<>>
    PROVE  HiddenStep /\ ReportStep
<1>1. Elements(last'.reported) = {}
  BY DEF Elements
<1> QED BY <1>1 DEF HiddenStep, ReportStep, MessagesReported

(* Messages are erased, and the others stay or change in time. *)
LEMMA ErasingStep ==
    ASSUME IndInv, NEW S \in SUBSET Keys, NEW T \in SUBSET (Accounts \X Queues), Erase(S, T),
           \A k \in S : <<k[1], k[2]>> \in T,
           msg' \in [Keys -> Message],
           \A k \in Keys : k \in S \/ ~Stored(k) => msg'[k] = NoMessage,
           \A k \in Keys : k \notin S /\ Stored(k) => Timely(msg'[k]),
           now' = now, LastOK',
           handle' \in {"open", "storeless", "destroyed", "crashed"}
    PROVE  /\ IndInv' /\ VacantStep /\ OrderStep
           /\ \A k \in Keys : Stored(k)' <=> Stored(k) /\ k \notin S
<1>1. /\ StoreConsistent' /\ KeysNamed' /\ Vacant' \subseteq Vacant
      /\ \A k \in Keys : Stored(k)' <=> Stored(k) /\ k \notin S
  BY EraseKeeps
<1>2. TypeOK'
  BY EraseLeaves DEF IndInv, TypeOK, LastOK
<1>3. DeadlinesKept'
  <2> SUFFICES ASSUME NEW k \in Keys PROVE Timely(msg[k])'
    BY DEF DeadlinesKept
  <2>1. CASE k \in S \/ ~Stored(k)
    <3>1. msg'[k] = NoMessage
      BY <2>1
    <3> QED BY <3>1 DEF Timely, NoMessage, IndInv, TypeOK
  <2>2. CASE k \notin S /\ Stored(k)
    <3>1. Timely(msg'[k])
      BY <2>2
    <3> QED BY <3>1 DEF Timely
  <2> QED BY <2>1, <2>2
<1>4. OrderStep
  <2>1. \A p \in Accounts \X Queues : ids'[p] = Kept(ids[p], {m \in Ids : <<p[1], p[2], m>> \notin S})
    BY DEF Erase
  <2>2. \A p \in Accounts \X Queues : \E R : ids'[p] = Kept(ids[p], R)
    BY <2>1
  <2> QED BY <2>2, OrderFromIds
<1> QED BY <1>1, <1>2, <1>3, <1>4 DEF IndInv, VacantStep

-----------------------------------------------------------------------------
(* The commands on one message *)

LEMMA create_messageStep ==
    ASSUME IndInv, NEW k \in Keys, NEW at \in Attributes, create_message(k, at)
    PROVE  IndInv' /\ StepOK
<1> DEFINE done == Command("create_message", k, DefaultFilter, at)
<1>1. /\ handle = "open" /\ now' = now
      /\ \/ Put(k, at) /\ last' = done
         \/ PutFails(k) /\ last' = [done EXCEPT !.failed = TRUE]
         \/ PutCrashes(k) /\ last' = [done EXCEPT !.failed = TRUE]
  BY DEF create_message
<1>2. /\ last'.op = "create_message" /\ last'.reported = <<>> /\ last'.ret = "0"
      /\ last'.failed \in BOOLEAN
  <2>1. last' = done \/ last' = [done EXCEPT !.failed = TRUE]
    BY <1>1
  <2>2. CASE last' = done
    BY <2>2 DEF Command
  <2>3. CASE last' = [done EXCEPT !.failed = TRUE]
    BY <2>3 DEF Command
  <2> QED BY <2>1, <2>2, <2>3
<1>3. LastOK'
  BY <1>2 DEF LastOK, Ops
<1>4. HiddenStep /\ ReportStep
  BY <1>2, NothingReported
<1>5. handle' \in {"open", "crashed"}
  BY <1>1 DEF Put, PutFails, PutCrashes
<1>6. DestroyStep
  BY <1>5 DEF DestroyStep
<1>7. now \in 1..MaxTime /\ msg \in [Keys -> Message] /\ ids \in [Accounts \X Queues -> Seq(Ids)]
      /\ at \in GivenAttributes
  BY DEF IndInv, TypeOK, GivenAttributes
<1>8. CASE Put(k, at)
  <2>1. TypeOK' /\ StoreConsistent' /\ KeysNamed' /\ Vacant' \subseteq Vacant
    BY <1>1, <1>3, <1>5, <1>7, <1>8, PutKeeps DEF IndInv, TypeOK, LastOK
  <2>2. DeadlinesKept'
    <3> DEFINE ttl == IF "ttl" \in at.set THEN at.ttl ELSE DefaultTtl
               hide == IF "hide" \in at.set THEN at.hide ELSE 0
               new == [ttl |-> Wrap(now + ttl), hide |-> IF hide = 0 THEN 0 ELSE Wrap(now + hide),
                       expiresAt |-> now + ttl, hiddenUntil |-> now + hide]
    <3>1. msg' = [msg EXCEPT ![k] = new]
      BY <1>8 DEF Put
    <3>2. ttl \in Nat /\ hide \in Nat
      BY <1>7 DEF GivenAttributes
    <3> HIDE DEF ttl, hide
    <3>3. Timely(new)
      BY <1>7, <3>2, NewTimely
    <3> HIDE DEF new
    <3>4. ASSUME NEW x \in Keys PROVE Timely(msg'[x])
      BY <1>7, <3>1, <3>3 DEF IndInv, DeadlinesKept
    <3> QED BY <1>1, <3>4 DEF DeadlinesKept, Timely
  <2>3. OrderStep
    <3> DEFINE p == <<k[1], k[2]>>
    <3>1. ids' = IF Stored(k) THEN ids ELSE [ids EXCEPT ![p] = Append(@, k[3])]
      BY <1>8 DEF Put
    <3>2. k[3] \in Ids /\ (Stored(k) <=> k[3] \in Elements(ids[p]))
      BY KeyParts DEF Stored
    <3> HIDE DEF p
    <3>3. ASSUME NEW r \in Accounts \X Queues
          PROVE  \/ ids'[r] = ids[r]
                 \/ \E m \in Ids : m \notin Elements(ids[r]) /\ ids'[r] = Append(ids[r], m)
      BY <1>7, <3>1, <3>2
    <3> QED BY <3>3, OrderFromIds
  <2> QED BY <1>1, <1>4, <1>6, <2>1, <2>2, <2>3 DEF IndInv, StepOK, VacantStep
<1>9. CASE PutFails(k) /\ last' = [done EXCEPT !.failed = TRUE]
  <2>1. ids' = ids /\ msg' = msg
    BY <1>9 DEF PutFails
  <2>2. TypeOK' /\ StoreConsistent'
    BY <1>1, <1>3, <1>5, <1>7, <1>9, <2>1, PutFailsKeeps DEF IndInv, TypeOK, LastOK
  <2>3. KeysNamed'
    BY <2>1 DEF IndInv, KeysNamed
  <2>4. DeadlinesKept'
    BY <1>1, <2>1 DEF IndInv, DeadlinesKept, Timely
  <2>5. OrderStep
    BY <2>1, OrderFromIds
  <2>6. VacantStep
    BY <1>2, <1>9 DEF VacantStep, Command
  <2> QED BY <1>1, <1>4, <1>6, <2>2, <2>3, <2>4, <2>5, <2>6 DEF IndInv, StepOK
<1>10. CASE PutCrashes(k)
  <2>1. UNCHANGED store
    BY <1>10 DEF PutCrashes
  <2>2. IndInv' /\ VacantStep /\ OrderStep
    BY <1>1, <1>3, <1>5, <1>7, <2>1, SameStore
  <2> QED BY <1>4, <1>6, <2>2 DEF StepOK
<1> QED BY <1>1, <1>8, <1>9, <1>10

(* What a command on one message reports. *)
LEMMA DirectReports ==
    ASSUME IndInv, NEW k \in Keys, NEW op \in Ops, NEW at, NEW m \in Message,
           NEW ret \in {"0", "EINVAL"}, Direct(op, k, at, m, ret)
    PROVE  /\ LastOK' /\ last'.op = op
           /\ \A r \in MessagesReported :
                 /\ Stored(k) /\ ~Expired(k) /\ r.key = k
                 /\ Timely(m) /\ (m.expiresAt < Modulus => m.expiresAt >= now) => TellsTruth(r, m)
<1>1. PICK marked \in BOOLEAN :
         last' = [Command(op, k, DefaultFilter, at) EXCEPT
                    !.ret = ret,
                    !.reported = IF Stored(k) /\ ~Expired(k) THEN <<Report(k, m, marked)>> ELSE <<>>]
  BY DEF Direct
<1>2. /\ last'.op = op /\ last'.ret = ret /\ last'.failed = FALSE
      /\ last'.reported = IF Stored(k) /\ ~Expired(k) THEN <<Report(k, m, marked)>> ELSE <<>>
  BY <1>1 DEF Command
<1>3. now \in 1..MaxTime
  BY DEF IndInv, TypeOK
<1> DEFINE r0 == Report(k, m, marked)
<1>4. /\ r0 \in MessageReport /\ r0.key = k
      /\ Timely(m) /\ (m.expiresAt < Modulus => m.expiresAt >= now) => TellsTruth(r0, m)
  BY <1>3, ReportTrue
<1> HIDE DEF r0
<1>5. last'.reported = <<>> \/ last'.reported = <<r0>>
  BY <1>2 DEF r0
<1>6. LastOK'
  <2>1. r0 \in Reports
    BY <1>4 DEF Reports
  <2>2. last'.reported \in Seq(Reports)
    <3>1. <<r0>> \in Seq(Reports) /\ <<>> \in Seq(Reports)
      BY <2>1
    <3> QED BY <1>5, <3>1
  <2> QED BY <1>2, <2>2 DEF LastOK
<1>7. ASSUME NEW r \in MessagesReported PROVE r = r0 /\ Stored(k) /\ ~Expired(k)
  <2>1. r \in Elements(last'.reported)
    BY DEF MessagesReported
  <2>2. CASE Stored(k) /\ ~Expired(k)
    <3>1. last'.reported = <<r0>>
      BY <1>2, <2>2 DEF r0
    <3> QED BY <2>1, <2>2, <3>1 DEF Elements
  <2>3. CASE ~ (Stored(k) /\ ~Expired(k))
    <3>1. last'.reported = <<>>
      BY <1>2, <2>3
    <3> QED BY <2>1, <3>1 DEF Elements
  <2> QED BY <2>2, <2>3
<1> QED BY <1>2, <1>4, <1>6, <1>7

(* Erasing one stored message. *)
LEMMA EraseMessageStep ==
    ASSUME IndInv, NEW k \in Keys, Stored(k), EraseMessage(k), now' = now, LastOK',
           handle' \in {"open", "storeless", "destroyed", "crashed"}
    PROVE  IndInv' /\ VacantStep /\ OrderStep /\ ~Stored(k)'
<1>1. Erase({k}, {<<k[1], k[2]>>}) /\ msg' = Forget({k})
  BY DEF EraseMessage
<1>2. {k} \in SUBSET Keys /\ {<<k[1], k[2]>>} \in SUBSET (Accounts \X Queues)
  BY KeyParts
<1>3. msg \in [Keys -> Message] /\ \A x \in Keys : ~Stored(x) => msg[x] = NoMessage
  BY DEF IndInv, TypeOK, StoreConsistent
<1>4. NoMessage \in Message
  BY DEF NoMessage, Message
<1>5. /\ msg' \in [Keys -> Message]
      /\ \A x \in Keys : x \in {k} \/ ~Stored(x) => msg'[x] = NoMessage
      /\ \A x \in Keys : x \notin {k} /\ Stored(x) => Timely(msg'[x])
  BY <1>1, <1>3, <1>4 DEF Forget, IndInv, DeadlinesKept
<1>6. /\ IndInv' /\ VacantStep /\ OrderStep
      /\ \A x \in Keys : Stored(x)' <=> Stored(x) /\ x \notin {k}
  <2>1. \A x \in {k} : <<x[1], x[2]>> \in {<<k[1], k[2]>>}
    OBVIOUS
  <2> DEFINE S == {k}
             T == {<<k[1], k[2]>>}
  <2> HIDE DEF S, T
  <2>2. /\ Erase(S, T) /\ S \in SUBSET Keys /\ T \in SUBSET (Accounts \X Queues)
        /\ \A x \in S : <<x[1], x[2]>> \in T
        /\ \A x \in Keys : x \in S \/ ~Stored(x) => msg'[x] = NoMessage
        /\ \A x \in Keys : x \notin S /\ Stored(x) => Timely(msg'[x])
    BY <1>1, <1>2, <1>5, <2>1 DEF S, T
  <2>3. /\ IndInv' /\ VacantStep /\ OrderStep
        /\ \A x \in Keys : Stored(x)' <=> Stored(x) /\ x \notin S
    BY <1>5, <2>2, ErasingStep
  <2> QED BY <2>3 DEF S
<1> QED BY <1>6

LEMMA StoredTimely ==
    ASSUME IndInv, NEW k \in Keys
    PROVE  /\ now \in 1..MaxTime /\ msg[k] \in Message /\ Timely(msg[k])
           /\ ~Expired(k) /\ msg[k].expiresAt < Modulus => msg[k].expiresAt >= now
<1>1. now \in 1..MaxTime /\ msg[k] \in Message /\ Timely(msg[k])
  BY DEF IndInv, TypeOK, DeadlinesKept
<1> QED BY <1>1 DEF Expired, Timely, Message

(* A report of message k of a command on one message, if asked is what the client asked for. *)
LEMMA DirectStep ==
    ASSUME IndInv, NEW k \in Keys, last'.op \in {"get_message", "update_message", "delete_message"},
           \A r \in MessagesReported :
              r.key = k /\ TellsTruth(r, IF Stored(k)' THEN msg'[k] ELSE msg[k])
    PROVE  HiddenStep /\ ReportStep
<1>1. HiddenStep
  BY DEF HiddenStep
<1>2. ReportStep
  <2> SUFFICES ASSUME NEW r \in MessagesReported
               PROVE  LET asked == IF Stored(r.key)' THEN msg'[r.key] ELSE msg[r.key]
                      IN  /\ last'.op \in {"get_messages", "update_messages", "delete_messages"}
                                => r.marked
                          /\ TellsTruth(r, asked)
    BY DEF ReportStep, TellsTruth
  <2> QED OBVIOUS
<1> QED BY <1>1, <1>2

LEMMA get_messageStep ==
    ASSUME IndInv, NEW k \in Keys, get_message(k)
    PROVE  IndInv' /\ StepOK
<1>1. /\ handle = "open" /\ now' = now
      /\ IF Stored(k) /\ Expired(k)
           THEN handle' \in {"open", "crashed"} /\ EraseMessage(k)
           ELSE UNCHANGED <<store, handle>>
      /\ Direct("get_message", k, NoAttributes, msg[k], IF Stored(k) THEN "0" ELSE "EINVAL")
  BY DEF get_message
<1>2. handle' \in {"open", "crashed"} /\ DestroyStep
  BY <1>1 DEF DestroyStep
<1>3. /\ now \in 1..MaxTime /\ msg[k] \in Message /\ Timely(msg[k])
      /\ ~Expired(k) /\ msg[k].expiresAt < Modulus => msg[k].expiresAt >= now
  BY StoredTimely
<1>4. /\ LastOK' /\ last'.op = "get_message"
      /\ \A r \in MessagesReported :
            /\ Stored(k) /\ ~Expired(k) /\ r.key = k
            /\ Timely(msg[k]) /\ (msg[k].expiresAt < Modulus => msg[k].expiresAt >= now)
                  => TellsTruth(r, msg[k])
  <2>1. "get_message" \in Ops /\ (IF Stored(k) THEN "0" ELSE "EINVAL") \in {"0", "EINVAL"}
    BY DEF Ops
  <2> QED BY <1>1, <1>3, <2>1, DirectReports
<1>5. CASE Stored(k) /\ Expired(k)
  <2>1. IndInv' /\ VacantStep /\ OrderStep
    BY <1>1, <1>2, <1>4, <1>5, EraseMessageStep
  <2>2. HiddenStep /\ ReportStep
    BY <1>4, <1>5, DirectStep
  <2> QED BY <1>2, <2>1, <2>2 DEF StepOK
<1>6. CASE ~ (Stored(k) /\ Expired(k))
  <2>1. UNCHANGED store
    BY <1>1, <1>6
  <2>2. IndInv' /\ VacantStep /\ OrderStep /\ (Stored(k)' <=> Stored(k))
    BY <1>1, <1>2, <1>3, <1>4, <2>1, SameStore
  <2>3. msg' = msg
    BY <2>1 DEF store
  <2>4. HiddenStep /\ ReportStep
    BY <1>3, <1>4, <2>2, <2>3, DirectStep
  <2> QED BY <1>2, <2>2, <2>4 DEF StepOK
<1> QED BY <1>5, <1>6

LEMMA delete_messageStep ==
    ASSUME IndInv, NEW k \in Keys, delete_message(k)
    PROVE  IndInv' /\ StepOK
<1>1. /\ handle = "open" /\ now' = now /\ handle' = handle
      /\ IF Stored(k) THEN EraseMessage(k) ELSE UNCHANGED store
      /\ Direct("delete_message", k, NoAttributes, msg[k], "0")
  BY DEF delete_message
<1>2. DestroyStep
  BY <1>1 DEF DestroyStep
<1>3. /\ now \in 1..MaxTime /\ msg[k] \in Message /\ Timely(msg[k])
      /\ ~Expired(k) /\ msg[k].expiresAt < Modulus => msg[k].expiresAt >= now
  BY StoredTimely
<1>4. /\ LastOK' /\ last'.op = "delete_message"
      /\ \A r \in MessagesReported :
            /\ Stored(k) /\ ~Expired(k) /\ r.key = k
            /\ Timely(msg[k]) /\ (msg[k].expiresAt < Modulus => msg[k].expiresAt >= now)
                  => TellsTruth(r, msg[k])
  <2>1. "delete_message" \in Ops
    BY DEF Ops
  <2> QED BY <1>1, <1>3, <2>1, DirectReports
<1>5. CASE Stored(k)
  <2>1. IndInv' /\ VacantStep /\ OrderStep /\ ~Stored(k)'
    BY <1>1, <1>4, <1>5, EraseMessageStep
  <2>2. HiddenStep /\ ReportStep
    BY <1>3, <1>4, <2>1, DirectStep
  <2> QED BY <1>2, <2>1, <2>2 DEF StepOK
<1>6. CASE ~Stored(k)
  <2>1. UNCHANGED store
    BY <1>1, <1>6
  <2>2. IndInv' /\ VacantStep /\ OrderStep
    BY <1>1, <1>3, <1>4, <2>1, SameStore
  <2>3. HiddenStep /\ ReportStep
    BY <1>4, <1>6, DirectStep
  <2> QED BY <1>2, <2>2, <2>3 DEF StepOK
<1> QED BY <1>5, <1>6

LEMMA update_messageStep ==
    ASSUME IndInv, NEW k \in Keys, NEW at \in Attributes, update_message(k, at)
    PROVE  IndInv' /\ StepOK
<1> DEFINE used == [at EXCEPT !.set = IF at.ttl = 0 THEN @ \ {"ttl"} ELSE @]
           new == ScanUpdate(msg[k], used)
<1>1. /\ handle = "open" /\ now' = now /\ handle' = handle
      /\ \/ ~Stored(k) /\ UNCHANGED store
         \/ Stored(k) /\ Expired(k) /\ EraseMessage(k)
         \/ /\ Stored(k) /\ ~Expired(k)
            /\ msg' = [msg EXCEPT ![k] = new]
            /\ UNCHANGED <<accounts, queues, ids, bare>>
      /\ Direct("update_message", k, at, new, IF Stored(k) THEN "0" ELSE "EINVAL")
  BY DEF update_message
<1>2. DestroyStep
  BY <1>1 DEF DestroyStep
<1>3. now \in 1..MaxTime /\ msg[k] \in Message /\ Timely(msg[k])
  BY StoredTimely
<1>4. used \in GivenAttributes
  <2>1. at \in GivenAttributes
    BY DEF GivenAttributes
  <2>2. at.set \in SUBSET {"ttl", "hide"} /\ at.set \ {"ttl"} \in SUBSET {"ttl", "hide"}
    BY <2>1 DEF GivenAttributes
  <2> QED BY <2>1, <2>2 DEF GivenAttributes
<1> HIDE DEF used
<1>5. /\ new \in Message /\ Timely(new)
      /\ ~Expired(k) /\ new.expiresAt < Modulus => new.expiresAt >= now
  <2>1. ~Expired(k) => msg[k].ttl > now
    BY <1>3 DEF Expired, Message
  <2> QED BY <1>3, <1>4, <2>1, UpdateTimely
<1> HIDE DEF new
<1>6. /\ LastOK' /\ last'.op = "update_message"
      /\ \A r \in MessagesReported :
            /\ Stored(k) /\ ~Expired(k) /\ r.key = k
            /\ Timely(new) /\ (new.expiresAt < Modulus => new.expiresAt >= now)
                  => TellsTruth(r, new)
  <2>1. "update_message" \in Ops /\ (IF Stored(k) THEN "0" ELSE "EINVAL") \in {"0", "EINVAL"}
    BY DEF Ops
  <2> QED BY <1>1, <1>5, <2>1, DirectReports
<1>7. CASE ~Stored(k) /\ UNCHANGED store
  <2>1. IndInv' /\ VacantStep /\ OrderStep
    BY <1>1, <1>3, <1>6, <1>7, SameStore
  <2>2. HiddenStep /\ ReportStep
    BY <1>6, <1>7, DirectStep
  <2> QED BY <1>2, <2>1, <2>2 DEF StepOK
<1>8. CASE Stored(k) /\ Expired(k) /\ EraseMessage(k)
  <2>1. IndInv' /\ VacantStep /\ OrderStep
    BY <1>1, <1>6, <1>8, EraseMessageStep
  <2>2. HiddenStep /\ ReportStep
    BY <1>6, <1>8, DirectStep
  <2> QED BY <1>2, <2>1, <2>2 DEF StepOK
<1>9. CASE /\ Stored(k) /\ ~Expired(k)
           /\ msg' = [msg EXCEPT ![k] = new]
           /\ UNCHANGED <<accounts, queues, ids, bare>>
  <2>1. msg \in [Keys -> Message] /\ msg'[k] = new
    BY <1>9 DEF IndInv, TypeOK
  <2>2. \A x \in Keys : Stored(x)' <=> Stored(x)
    BY <1>9 DEF Stored
  <2>3. TypeOK'
    BY <1>1, <1>5, <1>6, <1>9, <2>1 DEF IndInv, TypeOK, LastOK
  <2>4. StoreConsistent'
    <3>1. \A x \in Keys : ~Stored(x)' => msg'[x] = NoMessage
      BY <1>9, <2>1, <2>2 DEF IndInv, StoreConsistent
    <3> QED BY <1>9, <3>1 DEF IndInv, StoreConsistent
  <2>5. KeysNamed'
    BY <1>9 DEF IndInv, KeysNamed
  <2>6. DeadlinesKept'
    <3>1. ASSUME NEW x \in Keys PROVE Timely(msg'[x])
      BY <1>5, <1>9, <2>1 DEF IndInv, DeadlinesKept
    <3> QED BY <1>1, <3>1 DEF DeadlinesKept, Timely
  <2>7. OrderStep
    BY <1>9, OrderFromIds
  <2>8. VacantStep
    BY <1>9 DEF VacantStep, Vacant
  <2>9. HiddenStep /\ ReportStep
    BY <1>5, <1>6, <1>9, <2>1, <2>2, DirectStep
  <2> QED BY <1>1, <1>2, <2>3, <2>4, <2>5, <2>6, <2>7, <2>8, <2>9 DEF IndInv, StepOK
<1> QED BY <1>1, <1>7, <1>8, <1>9

-----------------------------------------------------------------------------
(* The commands on lists *)

LEMMA ScanQueueStep ==
    ASSUME IndInv, NEW op \in {"get_messages", "update_messages", "delete_messages"},
           NEW a \in Accounts, NEW q \in Queues, NEW f \in Filters, NEW at \in GivenAttributes,
           ScanQueue(op, a, q, f, at)
    PROVE  IndInv' /\ StepOK
<1> DEFINE matched == Matched(a, q, f)
           gone == ExpiredIn(a, q, f) \cup (IF op = "delete_messages" THEN matched ELSE {})
           new(k) == IF op = "update_messages" THEN ScanUpdate(msg[k], at) ELSE msg[k]
           hits == Kept(Scanned(a, q, f), matched)
           done == Command(op, <<a, q, NULL>>, f, at)
           told == [i \in DOMAIN hits |-> Report(hits[i], new(hits[i]), TRUE)]
<1>1. /\ handle = "open" /\ now' = now /\ handle' = handle
      /\ \/ /\ Erase(gone, {<<a, q>>})
            /\ msg' = [k \in Keys |-> CASE k \in gone -> NoMessage
                                        [] k \in matched \ gone -> new(k)
                                        [] OTHER -> msg[k]]
            /\ last' = [done EXCEPT !.reported = told]
         \/ last' = [done EXCEPT !.failed = TRUE] /\ UNCHANGED store
  BY DEF ScanQueue
<1>2. DestroyStep
  BY <1>1 DEF DestroyStep
<1>3. op \in Ops /\ f.limit \in Nat /\ now \in 1..MaxTime
  BY DEF Ops, IndInv, TypeOK
<1>4. /\ ExpiredIn(a, q, f) \in SUBSET Keys /\ matched \in SUBSET Keys
      /\ \A k \in ExpiredIn(a, q, f) : Stored(k) /\ Expired(k) /\ k[1] = a /\ k[2] = q
      /\ \A k \in matched : /\ Stored(k) /\ ~Expired(k) /\ k[1] = a /\ k[2] = q
                            /\ f.match_hidden \/ ~Hidden(k)
  BY <1>3, ScanSets
<1>5. CASE last' = [done EXCEPT !.failed = TRUE] /\ UNCHANGED store
  <2>1. last'.op = op /\ last'.reported = <<>> /\ last'.failed \in BOOLEAN /\ last'.ret = "0"
    BY <1>5 DEF Command
  <2>2. LastOK'
    BY <1>3, <2>1 DEF LastOK
  <2>3. IndInv' /\ VacantStep /\ OrderStep
    BY <1>1, <1>3, <1>5, <2>2, SameStore
  <2>4. HiddenStep /\ ReportStep
    BY <2>1, NothingReported
  <2> QED BY <1>2, <2>3, <2>4 DEF StepOK
<1>6. CASE /\ Erase(gone, {<<a, q>>})
           /\ msg' = [k \in Keys |-> CASE k \in gone -> NoMessage
                                       [] k \in matched \ gone -> new(k)
                                       [] OTHER -> msg[k]]
           /\ last' = [done EXCEPT !.reported = told]
  <2>1. hits \in Seq(Keys) /\ Elements(hits) \subseteq matched
    BY <1>3, ScannedKeys, KeptElements
  <2>2. ASSUME NEW k \in matched
        PROVE  /\ new(k) \in Message /\ Timely(new(k))
               /\ new(k).expiresAt < Modulus => new(k).expiresAt >= now
    <3>1. k \in Keys /\ ~Expired(k)
      BY <1>4
    <3>2. /\ msg[k] \in Message /\ Timely(msg[k])
          /\ msg[k].expiresAt < Modulus => msg[k].expiresAt >= now
      BY <3>1, StoredTimely
    <3>3. msg[k].ttl > now
      BY <1>3, <3>1, <3>2 DEF Expired, Message
    <3> QED BY <1>3, <3>2, <3>3, UpdateTimely
  <2>3. /\ last'.op = op /\ last'.filter = f /\ last'.failed = FALSE /\ last'.ret = "0"
        /\ last'.reported = told
    <3> HIDE DEF told
    <3> QED BY <1>6 DEF Command
  <2> DEFINE rep(k) == Report(k, new(k), TRUE)
  <2>4. ASSUME NEW k \in matched
        PROVE  /\ rep(k) \in MessageReport
               /\ rep(k).key = k /\ rep(k).marked = TRUE
               /\ TellsTruth(rep(k), new(k))
    <3>1. k \in Keys
      BY <1>4
    <3> HIDE DEF new
    <3> QED BY <1>3, <2>2, <3>1, ReportTrue
  <2>5. told = [i \in DOMAIN hits |-> rep(hits[i])]
    OBVIOUS
  <2> HIDE DEF matched, gone, new, hits, done, told, rep
  <2>6. DOMAIN hits = 1..Len(hits) /\ Len(hits) \in Nat /\ \A i \in 1..Len(hits) : hits[i] \in matched
    BY <2>1 DEF Elements
  <2>7. \A i \in 1..Len(hits) : rep(hits[i]) \in MessageReport
    BY <2>4, <2>6
  <2>8. told \in Seq(MessageReport) /\ DOMAIN told = 1..Len(hits)
    BY <2>5, <2>6, <2>7
  <2>9. LastOK'
    <3>1. MessageReport \subseteq Reports
      BY DEF Reports
    <3>2. told \in Seq(Reports)
      BY <2>8, <3>1
    <3> QED BY <1>3, <2>3, <3>2 DEF LastOK
  <2>10. ASSUME NEW r \in MessagesReported PROVE \E k \in matched : r = rep(k)
    <3>1. PICK i \in DOMAIN told : r = told[i]
      BY <2>3 DEF MessagesReported, Elements
    <3> QED BY <2>5, <2>6, <2>8, <3>1
  <2>11. /\ gone \in SUBSET Keys /\ {<<a, q>>} \in SUBSET (Accounts \X Queues)
         /\ \A k \in gone : Stored(k) /\ k[1] = a /\ k[2] = q
         /\ op # "delete_messages" => gone \cap matched = {}
         /\ op = "delete_messages" => matched \subseteq gone
    BY <1>4 DEF gone
  <2>12. \A k \in gone : <<k[1], k[2]>> \in {<<a, q>>}
    BY <2>11
  <2>13. msg \in [Keys -> Message] /\ \A k \in Keys : ~Stored(k) => msg[k] = NoMessage
    BY DEF IndInv, TypeOK, StoreConsistent
  <2>14. ASSUME NEW k \in Keys
         PROVE  /\ k \in gone => msg'[k] = NoMessage
                /\ k \in matched /\ k \notin gone => msg'[k] = new(k)
                /\ k \notin matched /\ k \notin gone => msg'[k] = msg[k]
    <3>1. msg'[k] = CASE k \in gone -> NoMessage
                      [] k \in matched \ gone -> new(k)
                      [] OTHER -> msg[k]
      BY <1>6, Zenon
    <3> QED BY <3>1
  <2>15. NoMessage \in Message
    BY DEF NoMessage, Message
  <2>16. msg' \in [Keys -> Message]
    <3>1. \A k \in Keys : msg'[k] \in Message
      BY <2>2, <2>13, <2>14, <2>15
    <3>2. msg' = [k \in Keys |-> msg'[k]]
      BY <1>6
    <3> QED BY <3>1, <3>2
  <2>17. \A k \in Keys : k \in gone \/ ~Stored(k) => msg'[k] = NoMessage
    BY <1>4, <2>13, <2>14 DEF matched
  <2>18. \A k \in Keys : k \notin gone /\ Stored(k) => Timely(msg'[k])
    BY <2>2, <2>14 DEF IndInv, DeadlinesKept
  <2>19. /\ IndInv' /\ VacantStep /\ OrderStep
         /\ \A k \in Keys : Stored(k)' <=> Stored(k) /\ k \notin gone
    BY <1>1, <1>6, <2>9, <2>11, <2>12, <2>16, <2>17, <2>18, ErasingStep
  <2>20. HiddenStep
    <3> SUFFICES ASSUME ~f.match_hidden, NEW r \in MessagesReported,
                        msg[r.key].hiddenUntil < Modulus
                 PROVE  msg[r.key].hiddenUntil <= now
      BY <2>3 DEF HiddenStep
    <3>1. PICK k \in matched : r = rep(k)
      BY <2>10
    <3>2. r.key = k /\ k \in Keys /\ ~Hidden(k)
      BY <1>4, <2>4, <3>1 DEF matched
    <3>3. Timely(msg[k]) /\ msg[k] \in Message
      BY <3>2, StoredTimely
    <3> QED BY <1>3, <3>2, <3>3 DEF Hidden, Timely, Message
  <2>21. ReportStep
    <3> SUFFICES ASSUME NEW r \in MessagesReported
                 PROVE  r.marked /\ TellsTruth(r, IF Stored(r.key)' THEN msg'[r.key] ELSE msg[r.key])
      BY DEF ReportStep, TellsTruth
    <3>1. PICK k \in matched : r = rep(k)
      BY <2>10
    <3>2. r.key = k /\ k \in Keys /\ Stored(k) /\ TellsTruth(r, new(k)) /\ r.marked
      BY <1>4, <2>4, <3>1 DEF matched
    <3>3. CASE op = "delete_messages"
      <4>1. new(k) = msg[k] /\ ~Stored(k)'
        BY <2>11, <2>19, <3>2, <3>3 DEF new
      <4> QED BY <3>2, <4>1
    <3>4. CASE op # "delete_messages"
      <4>1. Stored(k)' /\ msg'[k] = new(k)
        BY <2>11, <2>14, <2>19, <3>1, <3>2, <3>4
      <4> QED BY <3>2, <4>1
    <3> QED BY <3>3, <3>4
  <2> QED BY <1>2, <2>19, <2>20, <2>21 DEF StepOK
<1> QED BY <1>1, <1>5, <1>6

(* Queues T are deleted, or as many of them as memory lasts for. *)
LEMMA EraseQueuesStep ==
    ASSUME IndInv, NEW done, NEW T \in SUBSET (Accounts \X Queues), EraseQueues(done, T),
           NEW op \in Ops, NEW k, NEW f, NEW at, done = Command(op, k, f, at), now' = now,
           handle' \in {"open", "storeless", "destroyed", "crashed"}
    PROVE  /\ IndInv' /\ VacantStep /\ OrderStep /\ HiddenStep /\ ReportStep
           /\ ~last'.failed =>
                 \A x \in Keys : Stored(x)' => Stored(x) /\ x \notin ScannedAway(T)
<1>1. PICK scanned \in SUBSET T :
         /\ Erase(ScannedAway(scanned), scanned)
         /\ msg' = Forget(ScannedAway(scanned))
         /\ last' = [done EXCEPT !.failed = (scanned # T)]
  BY DEF EraseQueues
<1>2. /\ last'.op = op /\ last'.reported = <<>> /\ last'.ret = "0"
      /\ last'.failed = (scanned # T)
  BY <1>1 DEF Command
<1>3. LastOK'
  BY <1>2 DEF LastOK
<1>4. HiddenStep /\ ReportStep
  BY <1>2, NothingReported
<1> DEFINE S == ScannedAway(scanned)
<1>5. scanned \in SUBSET (Accounts \X Queues)
  OBVIOUS
<1>6. S \in SUBSET Keys /\ \A x \in S : <<x[1], x[2]>> \in scanned
  BY <1>5, AwaySets
<1> HIDE DEF S
<1>7. msg \in [Keys -> Message] /\ \A x \in Keys : ~Stored(x) => msg[x] = NoMessage
  BY DEF IndInv, TypeOK, StoreConsistent
<1>8. NoMessage \in Message
  BY DEF NoMessage, Message
<1>9. /\ msg' \in [Keys -> Message]
      /\ \A x \in Keys : x \in S \/ ~Stored(x) => msg'[x] = NoMessage
      /\ \A x \in Keys : x \notin S /\ Stored(x) => Timely(msg'[x])
  BY <1>1, <1>7, <1>8 DEF Forget, IndInv, DeadlinesKept, S
<1>10. /\ IndInv' /\ VacantStep /\ OrderStep
       /\ \A x \in Keys : Stored(x)' <=> Stored(x) /\ x \notin S
  <2>1. Erase(S, scanned)
    BY <1>1 DEF S
  <2> QED BY <1>3, <1>5, <1>6, <1>9, <2>1, ErasingStep
<1>11. ~last'.failed => S = ScannedAway(T)
  BY <1>2 DEF S
<1> QED BY <1>4, <1>10, <1>11

(* The queues of an account and of all accounts a window shows. *)
LEMMA WindowNames ==
    ASSUME IndInv, NEW f, f.limit \in Nat
    PROVE  /\ Window(accounts, f) \in Seq(Accounts)
           /\ Elements(Window(accounts, f)) \subseteq Accounts
           /\ \A a \in Accounts : /\ Window(queues[a], f) \in Seq(Queues)
                                  /\ Elements(Window(queues[a], f)) \subseteq Queues
<1>1. accounts \in Seq(Accounts) /\ queues \in [Accounts -> Seq(Queues)]
  BY DEF IndInv, TypeOK
<1>2. Window(accounts, f) \in Seq(Accounts)
  BY <1>1, WindowIsPart DEF Window
<1>3. ASSUME NEW a \in Accounts PROVE Window(queues[a], f) \in Seq(Queues)
  <2>1. queues[a] \in Seq(Queues)
    BY <1>1
  <2> QED BY <2>1, WindowIsPart DEF Window
<1> QED BY <1>2, <1>3, ElementsInside

LEMMA delete_queuesStep ==
    ASSUME IndInv, NEW a \in Accounts, NEW f \in Filters, delete_queues(a, f)
    PROVE  IndInv' /\ StepOK
<1> DEFINE T == {a} \X Elements(Window(queues[a], f))
           done == Command("delete_queues", <<a, NULL, NULL>>, f, NoAttributes)
<1>1. handle = "open" /\ handle' = handle /\ now' = now /\ EraseQueues(done, T)
  BY DEF delete_queues
<1>2. T \in SUBSET (Accounts \X Queues)
  <2>1. Elements(Window(queues[a], f)) \subseteq Queues
    BY WindowNames
  <2> QED BY <2>1
<1>3. "delete_queues" \in Ops
  BY DEF Ops
<1> HIDE DEF T
<1>4. IndInv' /\ VacantStep /\ OrderStep /\ HiddenStep /\ ReportStep
  BY <1>1, <1>2, <1>3, EraseQueuesStep
<1>5. DestroyStep
  BY <1>1 DEF DestroyStep
<1> QED BY <1>4, <1>5 DEF StepOK

LEMMA delete_accountsStep ==
    ASSUME IndInv, NEW f \in Filters, delete_accounts(f)
    PROVE  IndInv' /\ StepOK
<1> DEFINE T == QueuesOf(Elements(Window(accounts, f)))
           done == Command("delete_accounts", NoKey, f, NoAttributes)
<1>1. handle = "open" /\ handle' = handle /\ now' = now /\ EraseQueues(done, T)
  BY DEF delete_accounts
<1>2. T \in SUBSET (Accounts \X Queues)
  <2>1. Elements(Window(accounts, f)) \subseteq Accounts
    BY WindowNames
  <2> QED BY <2>1 DEF QueuesOf
<1>3. "delete_accounts" \in Ops
  BY DEF Ops
<1> HIDE DEF T
<1>4. IndInv' /\ VacantStep /\ OrderStep /\ HiddenStep /\ ReportStep
  BY <1>1, <1>2, <1>3, EraseQueuesStep
<1>5. DestroyStep
  BY <1>1 DEF DestroyStep
<1> QED BY <1>4, <1>5 DEF StepOK

LEMMA destroyStep ==
    ASSUME IndInv, destroy
    PROVE  IndInv' /\ StepOK
<1> DEFINE T == QueuesOf(Elements(accounts))
           done == Command("destroy", NoKey, DefaultFilter, NoAttributes)
<1>1. handle = "open" /\ handle' = "destroyed" /\ now' = now /\ EraseQueues(done, T)
  BY DEF destroy
<1>2. T \in SUBSET (Accounts \X Queues)
  <2>1. Elements(accounts) \subseteq Accounts
    BY StoreFacts
  <2> QED BY <2>1 DEF QueuesOf
<1>3. "destroy" \in Ops
  BY DEF Ops
<1>4. ASSUME NEW x \in Keys, Stored(x) PROVE <<x[1], x[2]>> \in T
  <2>1. x[1] \in Accounts /\ x[2] \in Queues
    BY KeyParts
  <2>2. ids[<<x[1], x[2]>>] # <<>>
    BY <1>4, <2>1, StoreFacts DEF Stored
  <2>3. x[2] \in Elements(queues[x[1]])
    BY <2>1, <2>2, StoreFacts
  <2>4. x[1] \in Elements(accounts)
    BY <2>1, <2>3, StoreFacts
  <2> QED BY <2>1, <2>3, <2>4 DEF QueuesOf
<1> HIDE DEF T
<1>5. /\ IndInv' /\ VacantStep /\ OrderStep /\ HiddenStep /\ ReportStep
      /\ ~last'.failed => \A x \in Keys : Stored(x)' => Stored(x) /\ x \notin ScannedAway(T)
  BY <1>1, <1>2, <1>3, EraseQueuesStep
<1>6. DestroyStep
  BY <1>2, <1>4, <1>5, AwaySets DEF DestroyStep
<1> QED BY <1>5, <1>6 DEF StepOK

LEMMA ListNamesStep ==
    ASSUME IndInv, NEW op \in {"get_queues", "get_accounts"}, NEW k, NEW f,
           NEW names \in Seq(Accounts) \cup Seq(Queues),
           ListNames(Command(op, k, f, NoAttributes), names)
    PROVE  IndInv' /\ StepOK
<1> DEFINE done == Command(op, k, f, NoAttributes)
<1>1. /\ handle = "open" /\ handle' = handle /\ now' = now /\ UNCHANGED store
      /\ last' = [done EXCEPT !.reported = names] \/ last' = [done EXCEPT !.failed = TRUE]
  BY DEF ListNames
<1>2. /\ last'.op = op /\ last'.failed \in BOOLEAN /\ last'.ret = "0"
      /\ last'.reported = names \/ last'.reported = <<>>
  <2>1. CASE last' = [done EXCEPT !.reported = names]
    BY <2>1 DEF Command
  <2>2. CASE last' = [done EXCEPT !.failed = TRUE]
    BY <2>2 DEF Command
  <2> QED BY <1>1, <2>1, <2>2
<1>3. LastOK'
  <2>1. names \in Seq(Reports)
    <3>1. Accounts \subseteq Reports /\ Queues \subseteq Reports
      BY DEF Reports
    <3> QED BY <3>1
  <2>2. <<>> \in Seq(Reports)
    OBVIOUS
  <2>3. last'.reported \in Seq(Reports)
    BY <1>2, <2>1, <2>2
  <2> QED BY <1>2, <2>3 DEF LastOK, Ops
<1>4. MessagesReported = {}
  <2>1. Elements(names) \subseteq Accounts \cup Queues
    BY ElementsInside
  <2>2. Elements(<<>>) = {}
    BY DEF Elements
  <2>3. Elements(last'.reported) \subseteq Accounts \cup Queues
    BY <1>2, <2>1, <2>2
  <2> QED BY <2>3 DEF MessagesReported
<1>5. now \in 1..MaxTime
  BY DEF IndInv, TypeOK
<1>6. IndInv' /\ VacantStep /\ OrderStep
  BY <1>1, <1>3, <1>5, SameStore
<1> QED BY <1>1, <1>4, <1>6 DEF StepOK, DestroyStep, HiddenStep, ReportStep

LEMMA WithoutStoreStep ==
    ASSUME IndInv, NEW op \in Ops, NEW k, WithoutStore(op, k)
    PROVE  IndInv' /\ StepOK
<1>1. /\ handle = "storeless" /\ handle' \in {"storeless", "destroyed"}
      /\ now' = now /\ UNCHANGED store
      /\ last' = [Command(op, k, DefaultFilter, NoAttributes) EXCEPT
                    !.ret = IF op \in {"get_message", "update_message"} THEN "EINVAL" ELSE "0",
                    !.failed = TRUE]
  BY DEF WithoutStore
<1>2. /\ last'.op = op /\ last'.failed \in BOOLEAN /\ last'.ret \in {"0", "EINVAL"}
      /\ last'.reported = <<>>
  BY <1>1 DEF Command
<1>3. LastOK'
  BY <1>2 DEF LastOK
<1>4. now \in 1..MaxTime
  BY DEF IndInv, TypeOK
<1>5. IndInv' /\ VacantStep /\ OrderStep
  BY <1>1, <1>3, <1>4, SameStore
<1>6. HiddenStep /\ ReportStep
  BY <1>2, NothingReported
<1> QED BY <1>1, <1>5, <1>6 DEF StepOK, DestroyStep

LEMMA TickStep ==
    ASSUME IndInv, Tick
    PROVE  IndInv' /\ StepOK
<1>1. handle = "open" /\ handle' = handle /\ now' = now + 1 /\ now < MaxTime /\ last' = NoCommand
      /\ UNCHANGED store
  BY DEF Tick
<1>2. last'.op = "none" /\ last'.failed \in BOOLEAN /\ last'.ret = "0" /\ last'.reported = <<>>
  BY <1>1 DEF NoCommand, Command
<1>3. LastOK'
  BY <1>2 DEF LastOK, Ops
<1>4. now \in 1..MaxTime
  BY DEF IndInv, TypeOK
<1>5. IndInv' /\ VacantStep /\ OrderStep
  BY <1>1, <1>3, <1>4, SameStore
<1>6. HiddenStep /\ ReportStep
  BY <1>2, NothingReported
<1> QED BY <1>1, <1>5, <1>6 DEF StepOK, DestroyStep

-----------------------------------------------------------------------------
(* The theorems *)

LEMMA InitInv == Init => IndInv
<1> SUFFICES ASSUME Init PROVE IndInv
  OBVIOUS
<1>1. /\ now = 1 /\ accounts = <<>> /\ bare = {}
      /\ queues = [a \in Accounts |-> <<>>]
      /\ ids = [p \in Accounts \X Queues |-> <<>>]
      /\ msg = [k \in Keys |-> NoMessage]
      /\ last = NoCommand
      /\ handle \in {"open", "storeless"}
  BY DEF Init
<1>2. Elements(<<>>) = {} /\ NoDuplicates(<<>>)
  BY DEF Elements, NoDuplicates
<1>3. last.op = "none" /\ last.failed \in BOOLEAN /\ last.reported = <<>> /\ last.ret = "0"
  BY <1>1 DEF NoCommand, Command
<1>4. NoMessage \in Message
  BY DEF NoMessage, Message
<1>5. TypeOK
  BY <1>1, <1>3, <1>4 DEF TypeOK, Ops
<1>6. StoreConsistent
  <2>1. \A a \in Accounts : queues[a] = <<>>
    BY <1>1
  <2>2. \A a \in Accounts, q \in Queues : ids[<<a, q>>] = <<>>
    BY <1>1
  <2> QED BY <1>1, <1>2, <2>1, <2>2 DEF StoreConsistent
<1>7. KeysNamed
  BY <1>1, <1>2 DEF KeysNamed
<1>8. DeadlinesKept
  BY <1>1 DEF DeadlinesKept, Timely, NoMessage
<1> QED BY <1>1, <1>5, <1>6, <1>7, <1>8 DEF IndInv

(* Every step of the backend keeps the invariant and does what the action properties allow. *)
LEMMA NextStep ==
    ASSUME IndInv, Next
    PROVE  IndInv' /\ (StepOK \/ UNCHANGED vars)
<1>1. ASSUME NEW k \in Keys, NEW at \in Attributes, create_message(k, at) \/ update_message(k, at)
      PROVE  IndInv' /\ StepOK
  BY <1>1, create_messageStep, update_messageStep
<1>2. ASSUME NEW k \in Keys, get_message(k) \/ delete_message(k) PROVE IndInv' /\ StepOK
  BY <1>2, get_messageStep, delete_messageStep
<1>3. ASSUME NEW a \in Accounts, NEW q \in Queues, NEW f \in Filters,
             \/ get_messages(a, q, f)
             \/ delete_messages(a, q, f)
             \/ \E at \in Attributes : update_messages(a, q, f, at)
      PROVE  IndInv' /\ StepOK
  <2>1. NoAttributes \in GivenAttributes /\ \A at \in Attributes : at \in GivenAttributes
    BY DEF NoAttributes, GivenAttributes
  <2> QED BY <1>3, <2>1, ScanQueueStep DEF get_messages, delete_messages, update_messages
<1>4. ASSUME NEW a \in Accounts, NEW f \in Filters, get_queues(a, f) \/ delete_queues(a, f)
      PROVE  IndInv' /\ StepOK
  <2>1. Window(queues[a], f) \in Seq(Accounts) \cup Seq(Queues)
    BY WindowNames
  <2> QED BY <1>4, <2>1, ListNamesStep, delete_queuesStep DEF get_queues
<1>5. ASSUME NEW f \in Filters, get_accounts(f) \/ delete_accounts(f) PROVE IndInv' /\ StepOK
  <2>1. Window(accounts, f) \in Seq(Accounts) \cup Seq(Queues)
    BY WindowNames
  <2> QED BY <1>5, <2>1, ListNamesStep, delete_accountsStep DEF get_accounts
<1>6. ASSUME NEW op \in Ops \ {"none"}, NEW k \in Keys, WithoutStore(op, k) PROVE IndInv' /\ StepOK
  BY <1>6, WithoutStoreStep
<1>7. CASE UNCHANGED vars
  BY <1>7 DEF vars, store, IndInv, TypeOK, StoreConsistent, Stored, KeysNamed, DeadlinesKept, Timely
<1> QED BY <1>1, <1>2, <1>3, <1>4, <1>5, <1>6, <1>7, TickStep, destroyStep DEF Next, Closed

LEMMA StutterKeeps ==
    ASSUME IndInv, UNCHANGED vars
    PROVE  IndInv'
BY DEF vars, store, IndInv, TypeOK, StoreConsistent, Stored, KeysNamed, DeadlinesKept, Timely

LEMMA Invariance == Spec => []IndInv
<1>1. IndInv /\ [Next]_vars => IndInv'
  BY NextStep, StutterKeeps
<1> QED BY InitInv, <1>1, PTL DEF Spec

(* The memory backend's state has the types of its dictionaries and messages. *)
THEOREM TypeCorrect == Spec => []TypeOK
<1>1. IndInv => TypeOK
  BY DEF IndInv
<1> QED BY Invariance, <1>1, PTL

(***************************************************************************)
(* The levels of dictionaries fit together whatever the commands and the   *)
(* allocator do: nothing unreachable is left, no empty queue stays.        *)
(***************************************************************************)
THEOREM DictionariesFit == Spec => []StoreConsistent
<1>1. IndInv => StoreConsistent
  BY DEF IndInv
<1> QED BY Invariance, <1>1, PTL

(* Only a create_message without memory leaves an account without queues. *)
THEOREM VacantOnlyAfterFailure == Spec => VacantOnlyWithoutMemory
<1>1. IndInv /\ [Next]_vars =>
        [Vacant' \subseteq Vacant \/ (last'.op = "create_message" /\ last'.failed)]_vars
  BY NextStep DEF StepOK, VacantStep
<1> QED BY Invariance, <1>1, PTL DEF Spec, VacantOnlyWithoutMemory

(* A message a client asked to hide is not reported by a list command before that time. *)
THEOREM HiddenIsHidden == Spec => HiddenStaysHidden
<1>1. IndInv /\ [Next]_vars => [HiddenStep]_vars
  BY NextStep DEF StepOK
<1> QED BY Invariance, <1>1, PTL DEF Spec, HiddenStaysHidden, HiddenStep

(* Destroying the backend frees all messages but the hidden ones, if memory lasts. *)
THEOREM DestroyFreesVisible == Spec => DestroyLeavesHidden
<1>1. IndInv /\ [Next]_vars => [DestroyStep]_vars
  BY NextStep DEF StepOK
<1> QED BY Invariance, <1>1, PTL DEF Spec, DestroyLeavesHidden, DestroyStep

(* The seconds a report gives are those left of what the client asked for. *)
THEOREM ReportsAreTrue == Spec => ReportTellsTruth
<1>1. IndInv /\ [Next]_vars => [ReportStep]_vars
  BY NextStep DEF StepOK
<1> QED BY Invariance, <1>1, PTL DEF Spec, ReportTellsTruth, ReportStep

(* No command moves one message of a queue past another. *)
THEOREM QueuesKeepOrder == Spec => OrderKept
<1>1. IndInv /\ [Next]_vars => [OrderStep]_vars
  BY NextStep DEF StepOK
<1> QED BY Invariance, <1>1, PTL DEF Spec, OrderKept, OrderStep
=============================================================================
