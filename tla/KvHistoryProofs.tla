-------------------------- MODULE KvHistoryProofs --------------------------
(***************************************************************************)
(* For any number of clients, names and values: the stored records are     *)
(* what the history of mutations says, and a conditional mutation succeeds *)
(* only on the state its client has seen.                                  *)
(***************************************************************************)
EXTENDS KvProofs

\* LastChange is a position of the history before the one asked about.
Bounded ==
    \A n \in Name, j \in 1..(Len(executed) + 1) : LastChange(n, j) \in 0..(j - 1)

\* A record's ETag is the one of its generation.
EtagsFollow == \A n \in DOMAIN entries : entries[n].etag = etag_for(entries[n].generation)

\* The generations given out are below the next one, and no two puts share one.
Generations ==
    /\ \A i \in DOMAIN executed : executed[i].result.kind = "Put" =>
          executed[i].result.generation \in 1..(next_generation - 1)
    /\ \A i, j \in DOMAIN executed :
          /\ executed[i].result.kind = "Put" /\ executed[j].result.kind = "Put"
          /\ executed[i].result.generation = executed[j].result.generation
          => i = j

HistoryInv ==
    Bounded /\ EtagsFollow /\ Generations /\ EntriesMatchHistory /\ CompareAndSwap

\* What is appended to the history leaves its other positions alone.
LEMMA HistoryGrows ==
    ASSUME executed \in Seq(Executed), NEW x \in Executed, executed' = Append(executed, x)
    PROVE  /\ Len(executed) \in Nat /\ DOMAIN executed = 1..Len(executed)
           /\ Len(executed') = Len(executed) + 1
           /\ DOMAIN executed' = 1..(Len(executed) + 1)
           /\ \A i \in 1..Len(executed) : executed'[i] = executed[i]
           /\ executed'[Len(executed) + 1] = x
OBVIOUS

\* The largest element of a set of positions is its Latest.
LEMMA LatestIs ==
    ASSUME NEW c \in SUBSET Nat, NEW k \in c, \A i \in c : i <= k
    PROVE  Latest(c) = k
<1> DEFINE P(i) == \A j \in c : j <= i
           l == CHOOSE i \in c : P(i)
<1>1. k \in c /\ P(k) OBVIOUS
<1>2. l \in c /\ P(l)
  <2> HIDE DEF P
  <2> QED BY <1>1
<1>3. l <= k /\ k <= l BY <1>2, Zenon
<1>4. l \in Nat /\ k \in Nat BY <1>2, Zenon
<1>5. l = k
  <2> HIDE DEF l
  <2> QED BY <1>3, <1>4
<1> QED BY <1>5, Zenon DEF Latest

\* The changes before a position of the history stay what they are.
LEMMA EarlierChanges ==
    ASSUME executed \in Seq(Executed), NEW x \in Executed, executed' = Append(executed, x),
           NEW n, NEW j \in 1..(Len(executed) + 1)
    PROVE  /\ Changes(n, j)' = Changes(n, j)
           /\ LastChange(n, j)' = LastChange(n, j)
<1>1. /\ Len(executed) \in Nat
      /\ \A i \in 1..Len(executed) : executed'[i] = executed[i]
  BY HistoryGrows
<1>2. \A i \in 1..(j - 1) : executed'[i] = executed[i] BY <1>1
<1>3. Changes(n, j)' = Changes(n, j) BY <1>2 DEF Changes
<1> QED BY <1>3, Zenon DEF LastChange

\* The last change after an addition: it, if it changed the name, otherwise the old one.
LEMMA NewestChange ==
    ASSUME executed \in Seq(Executed), NEW x \in Executed, executed' = Append(executed, x),
           NEW n, NEW L, L = Len(executed)
    PROVE  LET new == x.result.kind \in {"Put", "Delete"} /\ x.mutation.request.name = n
           IN  /\ new => LastChange(n, L + 2)' = L + 1
               /\ ~new => LastChange(n, L + 2)' = LastChange(n, L + 1)
<1> DEFINE new == x.result.kind \in {"Put", "Delete"} /\ x.mutation.request.name = n
           C == {i \in 1..(L + 1) : /\ executed'[i].result.kind \in {"Put", "Delete"}
                                    /\ executed'[i].mutation.request.name = n}
<1>1. /\ L \in Nat /\ executed'[L + 1] = x
      /\ \A i \in 1..L : executed'[i] = executed[i]
  BY HistoryGrows
<1>2. Latest(C) = LastChange(n, L + 2)'
  <2>1. (L + 2) - 1 = L + 1 BY <1>1
  <2>2. C = Changes(n, L + 2)' BY <2>1 DEF Changes
  <2> HIDE DEF C
  <2> QED BY <2>2, Zenon DEF LastChange
<1>3. ASSUME new PROVE Latest(C) = L + 1
  <2>1. L + 1 \in C BY <1>1, <1>3
  <2>2. C \in SUBSET Nat /\ \A i \in C : i <= L + 1 BY <1>1
  <2> HIDE DEF C
  <2> QED BY <2>1, <2>2, LatestIs
<1>4. ASSUME ~new PROVE Latest(C) = LastChange(n, L + 1)
  <2>1. (L + 1) - 1 = L /\ \A i \in 1..(L + 1) : i = L + 1 \/ i \in 1..L BY <1>1
  <2>2. L + 1 \notin C BY <1>1, <1>4
  <2>3. C = {i \in 1..L : /\ executed[i].result.kind \in {"Put", "Delete"}
                          /\ executed[i].mutation.request.name = n}
    <3>1. 1..L \subseteq 1..(L + 1) BY <1>1
    <3> QED BY <1>1, <2>1, <2>2, <3>1
  <2>4. C = Changes(n, L + 1) BY <2>1, <2>3 DEF Changes
  <2> HIDE DEF C
  <2> QED BY <2>4, Zenon DEF LastChange
<1> HIDE DEF C
<1> QED BY <1>2, <1>3, <1>4, Zenon

\* What was said of the earlier positions is still true of them.
LEMMA EarlierKept ==
    ASSUME executed \in Seq(Executed), Bounded, NEW x \in Executed,
           executed' = Append(executed, x), NEW L, L = Len(executed),
           NEW n \in Name, NEW j \in 1..(L + 1), NEW l, l = LastChange(n, j)
    PROVE  /\ LastChange(n, j)' = l /\ l \in 0..L /\ l \in 0..(j - 1)
           /\ l # 0 => l \in 1..L /\ executed'[l] = executed[l]
           /\ LiveBefore(n, j)' <=> LiveBefore(n, j)
<1>1. /\ L \in Nat
      /\ \A i \in 1..L : executed'[i] = executed[i]
  BY HistoryGrows
<1>2. LastChange(n, j)' = l BY EarlierChanges
<1>3. l \in 0..(j - 1) BY DEF Bounded
<1>4. l \in 0..L /\ (l # 0 => l \in 1..L) BY <1>1, <1>3
<1>5. l # 0 => executed'[l] = executed[l] BY <1>1, <1>4
<1>6. LiveBefore(n, j)' <=> (l # 0 /\ executed'[l].result.kind = "Put")
  BY <1>2, Zenon DEF LiveBefore
<1>7. LiveBefore(n, j) <=> (l # 0 /\ executed[l].result.kind = "Put")
  BY Zenon DEF LiveBefore
<1>8. LiveBefore(n, j)' <=> LiveBefore(n, j) BY <1>5, <1>6, <1>7, Zenon
<1> QED BY <1>2, <1>3, <1>4, <1>5, <1>8

\* Bounded is kept by every addition.
LEMMA BoundedKept ==
    ASSUME executed \in Seq(Executed), Bounded, NEW x \in Executed,
           executed' = Append(executed, x)
    PROVE  Bounded'
<1> SUFFICES ASSUME NEW L, L = Len(executed) PROVE Bounded' OBVIOUS
<1>1. L \in Nat /\ Len(executed') = L + 1 BY HistoryGrows
<1> SUFFICES ASSUME NEW n \in Name, NEW j \in 1..(L + 2)
             PROVE  LastChange(n, j)' \in 0..(j - 1)
  BY <1>1 DEF Bounded
<1>2. CASE j \in 1..(L + 1) BY <1>2, EarlierKept
<1>3. CASE j = L + 2
  <2>1. LastChange(n, L + 1) \in 0..L BY <1>1 DEF Bounded
  <2>2. LastChange(n, L + 2)' \in {L + 1, LastChange(n, L + 1)} BY NewestChange
  <2> QED BY <2>1, <2>2, <1>1, <1>3
<1> QED BY <1>1, <1>2, <1>3

\* Conditions that were met stay met in the history.
LEMMA SwapsKept ==
    ASSUME executed \in Seq(Executed), Bounded, CompareAndSwap, NEW x \in Executed,
           executed' = Append(executed, x), NEW j \in 1..Len(executed)
    PROVE  SwapsWhatWasSeen(j)'
<1> SUFFICES ASSUME NEW L, L = Len(executed), NEW n, n = executed[j].mutation.request.name,
                    NEW l, l = LastChange(n, j)
             PROVE  SwapsWhatWasSeen(j)'
  OBVIOUS
<1>1. /\ L \in Nat /\ DOMAIN executed = 1..L
      /\ \A i \in 1..L : executed'[i] = executed[i]
  BY HistoryGrows
<1>2. executed'[j] = executed[j] /\ j \in 1..(L + 1) /\ 1..(j - 1) \subseteq 1..L BY <1>1
<1>3. n \in Name
  <2>1. executed[j] \in Executed BY <1>1
  <2>2. executed[j].mutation.request \in Request BY <2>1 DEF Executed, Mutation
  <2> QED BY <2>2, RequestParts
<1>4. /\ LastChange(n, j)' = l
      /\ l # 0 => executed'[l] = executed[l]
      /\ LiveBefore(n, j)' <=> LiveBefore(n, j)
  BY <1>2, <1>3, EarlierKept
<1>5. LiveBefore(n, j) => l # 0 BY Zenon DEF LiveBefore
<1>6. SwapsWhatWasSeen(j) BY <1>1 DEF CompareAndSwap
<1>7. \A i \in 1..(j - 1) : executed'[i] = executed[i] BY <1>1, <1>2
<1> QED BY <1>2, <1>4, <1>5, <1>6, <1>7, Zenon DEF SwapsWhatWasSeen

\* A mutation that passed Precondition was carried out on the state its client named.
LEMMA NewSwap ==
    ASSUME KvInv, HistoryInv, NEW m \in Mutation, NEW r \in Result,
           executed' = Append(executed, [mutation |-> m, result |-> r]),
           r.kind = "Rejected" \/ Precondition(m.request) = "none",
           NEW L, L = Len(executed)
    PROVE  SwapsWhatWasSeen(L + 1)'
<1> DEFINE x == [mutation |-> m, result |-> r]
<1>a. x \in Executed /\ x.mutation = m /\ x.result = r BY DEF Executed
<1>b. executed \in Seq(Executed) BY DEF KvInv, TypeOK, Executed
<1>c. executed' = Append(executed, x) OBVIOUS
<1> HIDE DEF x
<1>1. /\ L \in Nat /\ executed'[L + 1] = x /\ DOMAIN executed = 1..L
      /\ \A i \in 1..L : executed'[i] = executed[i]
  BY <1>a, <1>b, <1>c, HistoryGrows
<1> SUFFICES ASSUME NEW q, q = m.request, NEW n, n = q.name, NEW l, l = LastChange(n, L + 1)
             PROVE  SwapsWhatWasSeen(L + 1)'
  OBVIOUS
<1>2. q \in Request /\ n \in Name BY RequestParts DEF Mutation
<1>3. L + 1 \in 1..(L + 1) /\ (L + 1) - 1 = L BY <1>1
<1>4. /\ LastChange(n, L + 1)' = l
      /\ l # 0 => l \in 1..L /\ executed'[l] = executed[l]
      /\ LiveBefore(n, L + 1)' <=> LiveBefore(n, L + 1)
  BY <1>a, <1>b, <1>c, <1>2, <1>3, EarlierKept DEF HistoryInv
<1>5. executed'[L + 1].mutation.request = q /\ executed'[L + 1].result = r BY <1>1, <1>a
<1>6. /\ Live(n) <=> LiveBefore(n, L + 1)
      /\ Live(n) => entries[n].generation = executed[l].result.generation
  BY <1>2, Zenon DEF HistoryInv, EntriesMatchHistory
<1>7. CASE r.kind = "Rejected" BY <1>5, <1>7, Zenon DEF SwapsWhatWasSeen
<1>8. CASE Precondition(q) = "none"
  <2>1. ASSUME q.op = "Put", q.if_none_match PROVE ~LiveBefore(n, L + 1)'
    <3>1. ~Live(n) BY <1>8, <2>1 DEF Precondition
    <3> QED BY <3>1, <1>4, <1>6
  <2>2. ASSUME q.if_match # NoEtag
        PROVE  /\ LiveBefore(n, L + 1)'
               /\ etag_for(executed'[l].result.generation) = q.if_match
               /\ \A i \in 1..L :
                     executed'[i].result.kind = "Put" /\ i # l =>
                         etag_for(executed'[i].result.generation) # q.if_match
    <3>1. Holds(n, q.if_match) BY <1>8, <2>2 DEF Precondition
    <3>2. Live(n) /\ entries[n].etag = q.if_match BY <3>1 DEF Holds
    <3>3. LiveBefore(n, L + 1) BY <3>2, <1>6
    <3>4. l # 0 /\ executed[l].result.kind = "Put" BY <3>3, Zenon DEF LiveBefore
    <3>5. l \in 1..L /\ executed'[l] = executed[l] BY <3>4, <1>4
    <3>6. q.if_match = etag_for(executed[l].result.generation)
      BY <3>2, <1>6, Zenon DEF HistoryInv, EtagsFollow, Live
    <3>7. ASSUME NEW i \in 1..L, executed'[i].result.kind = "Put", i # l
          PROVE  etag_for(executed'[i].result.generation) # q.if_match
      <4>1. executed[i].result.kind = "Put" /\ executed'[i] = executed[i] BY <3>7, <1>1
      <4>2. executed[i].result.generation # executed[l].result.generation
        BY <4>1, <3>4, <3>5, <3>7, <1>1 DEF HistoryInv, Generations
      <4> QED BY <4>1, <4>2, <3>6 DEF etag_for
    <3> QED BY <1>4, <3>3, <3>5, <3>6, <3>7, Zenon
  <2> QED BY <1>3, <1>4, <1>5, <2>1, <2>2, Zenon DEF SwapsWhatWasSeen
<1> QED BY <1>7, <1>8

\* Every mutation of the longer history was carried out on the state it names.
LEMMA SwapKeeps ==
    ASSUME KvInv, HistoryInv, NEW m \in Mutation, NEW r \in Result,
           executed' = Append(executed, [mutation |-> m, result |-> r]),
           r.kind = "Rejected" \/ Precondition(m.request) = "none"
    PROVE  CompareAndSwap' /\ Bounded'
<1> DEFINE x == [mutation |-> m, result |-> r]
<1>a. x \in Executed BY DEF Executed
<1>b. executed \in Seq(Executed) BY DEF KvInv, TypeOK, Executed
<1>c. executed' = Append(executed, x) OBVIOUS
<1> SUFFICES ASSUME NEW L, L = Len(executed) PROVE CompareAndSwap' /\ Bounded' OBVIOUS
<1>1. SwapsWhatWasSeen(L + 1)' BY NewSwap
<1> HIDE DEF x
<1>2. L \in Nat /\ DOMAIN executed' = 1..(L + 1) BY <1>a, <1>b, <1>c, HistoryGrows
<1>3. Bounded' BY <1>a, <1>b, <1>c, BoundedKept DEF HistoryInv
<1>4. \A j \in 1..L : SwapsWhatWasSeen(j)'
  BY <1>a, <1>b, <1>c, SwapsKept DEF HistoryInv
<1>5. \A j \in 1..(L + 1) : j = L + 1 \/ j \in 1..L BY <1>2
<1> QED BY <1>1, <1>2, <1>3, <1>4, <1>5, Zenon DEF CompareAndSwap

\* A name that a mutation does not change is still what the history says.
LEMMA OthersMatch ==
    ASSUME KvInv, HistoryInv, NEW x \in Executed, executed' = Append(executed, x),
           NEW n \in Name,
           ~(x.result.kind \in {"Put", "Delete"} /\ x.mutation.request.name = n),
           Live(n)' <=> Live(n), Live(n) => entries'[n] = entries[n],
           NEW L, L = Len(executed)
    PROVE  /\ Live(n)' <=> LiveBefore(n, L + 2)'
           /\ Live(n)' =>
                 /\ entries'[n].body
                       = executed'[LastChange(n, L + 2)'].mutation.request.body
                 /\ entries'[n].generation
                       = executed'[LastChange(n, L + 2)'].result.generation
<1> SUFFICES ASSUME NEW l, l = LastChange(n, L + 1) PROVE
           /\ Live(n)' <=> LiveBefore(n, L + 2)'
           /\ Live(n)' =>
                 /\ entries'[n].body
                       = executed'[LastChange(n, L + 2)'].mutation.request.body
                 /\ entries'[n].generation
                       = executed'[LastChange(n, L + 2)'].result.generation
  OBVIOUS
<1>a. executed \in Seq(Executed) BY DEF KvInv, TypeOK, Executed
<1>1. L \in Nat BY <1>a, HistoryGrows
<1>2. l # 0 => executed'[l] = executed[l]
  <2>1. L + 1 \in 1..(L + 1) BY <1>1
  <2> QED BY <1>a, <2>1, EarlierKept DEF HistoryInv
<1>3. LastChange(n, L + 2)' = l BY <1>a, NewestChange, Zenon
<1>4. /\ Live(n) <=> (l # 0 /\ executed[l].result.kind = "Put")
      /\ Live(n) => /\ entries[n].body = executed[l].mutation.request.body
                    /\ entries[n].generation = executed[l].result.generation
  BY Zenon DEF HistoryInv, EntriesMatchHistory, LiveBefore
<1>5. LiveBefore(n, L + 2)' <=> (l # 0 /\ executed'[l].result.kind = "Put")
  BY <1>3, Zenon DEF LiveBefore
<1> QED BY <1>2, <1>3, <1>4, <1>5, Zenon

\* A mutation that gives out no generation keeps those of the history.
LEMMA GenerationsKept ==
    ASSUME KvInv, HistoryInv, NEW x \in Executed, executed' = Append(executed, x),
           x.result.kind # "Put", next_generation' = next_generation
    PROVE  Generations'
<1>a. executed \in Seq(Executed) BY DEF KvInv, TypeOK, Executed
<1> SUFFICES ASSUME NEW L, L = Len(executed) PROVE Generations' OBVIOUS
<1>1. /\ L \in Nat /\ executed'[L + 1] = x /\ DOMAIN executed = 1..L
      /\ DOMAIN executed' = 1..(L + 1)
      /\ \A i \in 1..L : executed'[i] = executed[i]
  BY <1>a, HistoryGrows
<1>2. \A i \in 1..(L + 1) : executed'[i].result.kind = "Put" =>
          i \in 1..L /\ executed'[i] = executed[i]
  BY <1>1
<1> QED BY <1>1, <1>2 DEF HistoryInv, Generations

\* A rejected mutation leaves the records and the history's account of them alone.
LEMMA RejectMatches ==
    ASSUME KvInv, HistoryInv, NEW m \in Mutation,
           NEW why \in {"KeyExists", "EtagMismatch", "GenerationExhausted"}, Reject(m, why)
    PROVE  HistoryInv'
<1> DEFINE r == [kind |-> "Rejected", why |-> why]
           x == [mutation |-> m, result |-> r]
<1>1. r \in Result /\ r.kind = "Rejected" BY RejectionType
<1>2. executed' = Append(executed, x) /\ UNCHANGED <<next_generation, entries>>
  BY DEF Reject, Settle
<1> HIDE DEF r
<1>3. x \in Executed /\ x.result.kind = "Rejected" BY <1>1 DEF Executed
<1>4. CompareAndSwap' /\ Bounded' BY <1>1, <1>2, SwapKeeps
<1> HIDE DEF x
<1>a. executed \in Seq(Executed) BY DEF KvInv, TypeOK, Executed
<1>5. Generations' BY <1>2, <1>3, GenerationsKept
<1>6. EtagsFollow' BY <1>2 DEF HistoryInv, EtagsFollow
<1>7. EntriesMatchHistory'
  <2> SUFFICES ASSUME NEW L, L = Len(executed) PROVE EntriesMatchHistory' OBVIOUS
  <2>1. Len(executed') + 1 = L + 2 BY <1>a, <1>2, <1>3, HistoryGrows
  <2>2. \A n \in Name : (Live(n)' <=> Live(n)) /\ entries'[n] = entries[n]
    BY <1>2 DEF Live
  <2>3. ASSUME NEW n \in Name
        PROVE  /\ Live(n)' <=> LiveBefore(n, L + 2)'
               /\ Live(n)' =>
                     /\ entries'[n].body
                           = executed'[LastChange(n, L + 2)'].mutation.request.body
                     /\ entries'[n].generation
                           = executed'[LastChange(n, L + 2)'].result.generation
    <3>1. ~(x.result.kind \in {"Put", "Delete"} /\ x.mutation.request.name = n) BY <1>3
    <3>2. (Live(n)' <=> Live(n)) /\ (Live(n) => entries'[n] = entries[n]) BY <2>2
    <3> QED BY <1>2, <1>3, <3>1, <3>2, OthersMatch, Zenon
  <2> QED BY <2>1, <2>3, Zenon DEF EntriesMatchHistory
<1> QED BY <1>4, <1>5, <1>6, <1>7 DEF HistoryInv

\* A put that is carried out is the last change of its name, under a new generation.
LEMMA StoreMatches ==
    ASSUME KvInv, HistoryInv, NEW m \in Mutation, m.request.op = "Put",
           Precondition(m.request) = "none", next_generation < MaxU64, Store(m, m.request)
    PROVE  HistoryInv'
<1> SUFFICES ASSUME NEW q, q = m.request, NEW g, g = next_generation,
                    NEW L, L = Len(executed)
             PROVE  HistoryInv'
  OBVIOUS
<1> DEFINE r == [kind |-> "Put", name |-> q.name, generation |-> g]
           x == [mutation |-> m, result |-> r]
           new == [body |-> q.body, etag |-> etag_for(g), generation |-> g]
<1>a. q.name \in Name BY RequestParts DEF Mutation
<1>b. g \in 1..MaxU64 /\ g \in Nat BY KvAssumption DEF KvInv, TypeOK
<1>c. executed \in Seq(Executed) BY DEF KvInv, TypeOK, Executed
<1>1. r \in Result BY <1>a, <1>b DEF Result, PutResponse
<1>2. /\ executed' = Append(executed, x) /\ next_generation' = g + 1
      /\ entries' = [n \in DOMAIN entries \cup {q.name} |->
                        IF n = q.name THEN new ELSE entries[n]]
  BY DEF Store, Settle
<1>3. /\ x \in Executed /\ x.result = r /\ x.mutation = m
      /\ r.kind = "Put" /\ r.generation = g
  BY <1>1 DEF Executed
<1>4. CompareAndSwap' /\ Bounded' BY <1>1, <1>2, SwapKeeps, Zenon
<1>5. /\ new.body = q.body /\ new.generation = g /\ new.etag = etag_for(g) OBVIOUS
<1> HIDE DEF r, x, new
<1>6. /\ L \in Nat /\ executed'[L + 1] = x /\ DOMAIN executed = 1..L
      /\ DOMAIN executed' = 1..(L + 1) /\ Len(executed') + 1 = L + 2
      /\ \A i \in 1..L : executed'[i] = executed[i]
  BY <1>2, <1>3, <1>c, HistoryGrows
<1>7. /\ DOMAIN entries' = DOMAIN entries \cup {q.name}
      /\ entries'[q.name] = new
      /\ \A n \in DOMAIN entries \ {q.name} : entries'[n] = entries[n]
  BY <1>2
<1>8. EtagsFollow' BY <1>5, <1>7 DEF HistoryInv, EtagsFollow
<1>9. Generations'
  <2>1. \A i \in 1..L : executed[i].result.kind = "Put" =>
          executed[i].result.generation \in 1..(g - 1)
    BY <1>6 DEF HistoryInv, Generations
  <2>2. \A i \in 1..L : executed'[i].result.kind = "Put" =>
          /\ executed'[i].result.generation \in 1..g
          /\ executed'[i].result.generation # g
    BY <1>b, <1>6, <2>1
  <2>3. executed'[L + 1].result.generation = g BY <1>3, <1>6
  <2>4. \A i \in 1..(L + 1) : i = L + 1 \/ i \in 1..L BY <1>6
  <2>5. (g + 1) - 1 = g /\ g \in 1..g BY <1>b
  <2>6. \A i \in DOMAIN executed' : executed'[i].result.kind = "Put" =>
          executed'[i].result.generation \in 1..(next_generation' - 1)
    BY <1>2, <1>6, <2>2, <2>3, <2>4, <2>5
  <2>7. ASSUME NEW i \in DOMAIN executed', NEW j \in DOMAIN executed',
               executed'[i].result.kind = "Put", executed'[j].result.kind = "Put",
               executed'[i].result.generation = executed'[j].result.generation
        PROVE  i = j
    <3>1. CASE i \in 1..L /\ j \in 1..L
      BY <2>7, <3>1, <1>6 DEF HistoryInv, Generations
    <3>2. CASE i = L + 1 \/ j = L + 1 BY <2>2, <2>3, <2>4, <2>7, <3>2, <1>6
    <3> QED BY <2>4, <3>1, <3>2, <1>6
  <2> QED BY <2>6, <2>7 DEF Generations
<1>10. ASSUME NEW n \in Name
       PROVE  /\ Live(n)' <=> LiveBefore(n, L + 2)'
              /\ Live(n)' =>
                    /\ entries'[n].body
                          = executed'[LastChange(n, L + 2)'].mutation.request.body
                    /\ entries'[n].generation
                          = executed'[LastChange(n, L + 2)'].result.generation
  <2>1. CASE n = q.name
    <3>1. LastChange(n, L + 2)' = L + 1 BY <2>1, <1>2, <1>3, <1>c, NewestChange, Zenon
    <3>2. Live(n)' BY <2>1, <1>7 DEF Live
    <3>3. /\ executed'[L + 1].result.kind = "Put" /\ executed'[L + 1].result.generation = g
          /\ executed'[L + 1].mutation.request = q /\ L + 1 # 0
      BY <1>3, <1>6
    <3>4. LiveBefore(n, L + 2)' BY <3>1, <3>3, Zenon DEF LiveBefore
    <3>5. entries'[n].body = q.body /\ entries'[n].generation = g BY <2>1, <1>5, <1>7
    <3>6. /\ executed'[LastChange(n, L + 2)'].mutation.request.body = q.body
          /\ executed'[LastChange(n, L + 2)'].result.generation = g
      BY <3>1, <3>3, Zenon
    <3> QED BY <3>2, <3>4, <3>5, <3>6, Zenon
  <2>2. CASE n # q.name
    <3>1. (Live(n)' <=> Live(n)) /\ (Live(n) => entries'[n] = entries[n])
      BY <2>2, <1>7 DEF Live
    <3>2. ~(x.result.kind \in {"Put", "Delete"} /\ x.mutation.request.name = n)
      BY <2>2, <1>3
    <3>3. x \in Executed /\ executed' = Append(executed, x) BY <1>2, <1>3
    <3> QED BY <3>1, <3>2, <3>3, OthersMatch, Zenon
  <2> QED BY <2>1, <2>2
<1>11. EntriesMatchHistory'
  <2>1. Len(executed') + 1 = L + 2 BY <1>6
  <2> QED BY <2>1, <1>10, Zenon DEF EntriesMatchHistory
<1> QED BY <1>4, <1>8, <1>9, <1>11 DEF HistoryInv

\* A delete that is carried out is the last change of its name.
LEMMA RemoveMatches ==
    ASSUME KvInv, HistoryInv, NEW m \in Mutation, m.request.op = "Delete",
           Precondition(m.request) = "none", Remove(m, m.request)
    PROVE  HistoryInv'
<1> SUFFICES ASSUME NEW q, q = m.request, NEW L, L = Len(executed) PROVE HistoryInv'
  OBVIOUS
<1> DEFINE g == IF Live(q.name) THEN entries[q.name].generation ELSE 0
           r == [kind |-> "Delete", name |-> q.name, deleted |-> Live(q.name),
                 generation |-> g]
           x == [mutation |-> m, result |-> r]
<1>a. q.name \in Name BY RequestParts DEF Mutation
<1>b. g \in 0..MaxU64
  <2>1. CASE Live(q.name)
    <3>1. entries[q.name] \in Record BY <2>1 DEF KvInv, TypeOK, Live
    <3>2. entries[q.name].generation \in 1..(MaxU64 - 1) BY <3>1 DEF Record
    <3> QED BY <3>2, <2>1, KvAssumption
  <2>2. CASE ~Live(q.name) BY <2>2, KvAssumption
  <2> QED BY <2>1, <2>2
<1>c. executed \in Seq(Executed) BY DEF KvInv, TypeOK, Executed
<1>d. Live(q.name) \in BOOLEAN BY DEF Live
<1>1. executed' = Append(executed, x)
      /\ next_generation' = next_generation
      /\ entries' = [n \in DOMAIN entries \ {q.name} |-> entries[n]]
  BY DEF Remove, Settle
<1> HIDE DEF g
<1>2. r \in Result BY <1>a, <1>b, <1>d DEF Result, DeleteResponse
<1>3. /\ x \in Executed /\ x.result = r /\ x.mutation = m /\ r.kind = "Delete"
  BY <1>2 DEF Executed
<1> HIDE DEF r
<1>4. CompareAndSwap' /\ Bounded' BY <1>1, <1>2, SwapKeeps
<1> HIDE DEF x
<1>5. /\ L \in Nat /\ executed'[L + 1] = x /\ Len(executed') + 1 = L + 2
  BY <1>1, <1>3, <1>c, HistoryGrows
<1>6. /\ DOMAIN entries' = DOMAIN entries \ {q.name}
      /\ \A n \in DOMAIN entries' : entries'[n] = entries[n]
  BY <1>1
<1>7. EtagsFollow' BY <1>6 DEF HistoryInv, EtagsFollow
<1>8. Generations' BY <1>1, <1>3, GenerationsKept
<1>9. ASSUME NEW n \in Name
      PROVE  /\ Live(n)' <=> LiveBefore(n, L + 2)'
             /\ Live(n)' =>
                   /\ entries'[n].body
                         = executed'[LastChange(n, L + 2)'].mutation.request.body
                   /\ entries'[n].generation
                         = executed'[LastChange(n, L + 2)'].result.generation
  <2>1. CASE n = q.name
    <3>1. LastChange(n, L + 2)' = L + 1 BY <2>1, <1>1, <1>3, <1>c, NewestChange, Zenon
    <3>2. ~Live(n)' BY <2>1, <1>6 DEF Live
    <3>3. executed'[L + 1].result.kind # "Put" BY <1>3, <1>5
    <3>4. ~LiveBefore(n, L + 2)' BY <3>1, <3>3, Zenon DEF LiveBefore
    <3> QED BY <3>2, <3>4, Zenon
  <2>2. CASE n # q.name
    <3>1. (Live(n)' <=> Live(n)) /\ (Live(n) => entries'[n] = entries[n])
      BY <2>2, <1>6 DEF Live
    <3>2. ~(x.result.kind \in {"Put", "Delete"} /\ x.mutation.request.name = n)
      BY <2>2, <1>3
    <3>3. x \in Executed /\ executed' = Append(executed, x) BY <1>1, <1>3
    <3> QED BY <3>1, <3>2, <3>3, OthersMatch, Zenon
  <2> QED BY <2>1, <2>2
<1>10. EntriesMatchHistory'
  <2>1. Len(executed') + 1 = L + 2 BY <1>5
  <2> QED BY <2>1, <1>9, Zenon DEF EntriesMatchHistory
<1> QED BY <1>4, <1>7, <1>8, <1>10 DEF HistoryInv

\* A step that leaves records, generations and history alone keeps the invariant.
LEMMA SameHistory ==
    ASSUME HistoryInv, UNCHANGED <<next_generation, entries, executed>>
    PROVE  HistoryInv'
<1>1. ASSUME NEW n, NEW j
      PROVE  /\ LastChange(n, j)' = LastChange(n, j)
             /\ LiveBefore(n, j)' <=> LiveBefore(n, j)
             /\ Live(n)' <=> Live(n)
  <2>1. Changes(n, j)' = Changes(n, j) BY DEF Changes
  <2>2. LastChange(n, j)' = LastChange(n, j) BY <2>1, Zenon DEF LastChange
  <2>3. Live(n)' <=> Live(n) BY DEF Live
  <2> QED BY <2>2, <2>3, Zenon DEF LiveBefore
<1>2. executed' = executed /\ entries' = entries /\ next_generation' = next_generation
  OBVIOUS
<1>3. Bounded'
  <2> SUFFICES ASSUME NEW n \in Name, NEW j \in 1..(Len(executed) + 1)
               PROVE  LastChange(n, j)' \in 0..(j - 1)
    BY <1>2 DEF Bounded
  <2> QED BY <1>1, Zenon DEF HistoryInv, Bounded
<1>4. EtagsFollow' /\ Generations' BY <1>2 DEF HistoryInv, EtagsFollow, Generations
<1>5. EntriesMatchHistory' BY <1>1, <1>2, Zenon DEF HistoryInv, EntriesMatchHistory
<1>6. CompareAndSwap'
  <2> SUFFICES ASSUME NEW j \in DOMAIN executed PROVE SwapsWhatWasSeen(j)'
    BY <1>2 DEF CompareAndSwap
  <2> SUFFICES ASSUME NEW n, n = executed[j].mutation.request.name,
                      NEW l, l = LastChange(n, j)
               PROVE  SwapsWhatWasSeen(j)'
    OBVIOUS
  <2>1. LastChange(n, j)' = l /\ (LiveBefore(n, j)' <=> LiveBefore(n, j)) BY <1>1, Zenon
  <2>2. SwapsWhatWasSeen(j) BY DEF HistoryInv, CompareAndSwap
  <2> QED BY <1>2, <2>1, <2>2, Zenon DEF SwapsWhatWasSeen
<1> QED BY <1>3, <1>4, <1>5, <1>6 DEF HistoryInv

\* Every step keeps the history's account of the records.
LEMMA HistoryStep ==
    ASSUME KvInv, HistoryInv, [Next]_vars
    PROVE  HistoryInv'
<1>1. CASE RegisterSession BY <1>1, SameHistory DEF RegisterSession
<1>2. CASE UNCHANGED vars BY <1>2, SameHistory DEF vars
<1>3. ASSUME NEW m \in Mutation, Mutate(m) PROVE HistoryInv'
  <2>1. CASE Reply(m) # Error("none") BY <1>2, <1>3, <2>1 DEF Mutate
  <2>2. CASE Reply(m) = Error("none")
    <3> DEFINE q == m.request
    <3>1. Execute(m) BY <1>3, <2>2 DEF Mutate
    <3>2. CASE Precondition(q) # "none" /\ Reject(m, Precondition(q))
      <4>1. Precondition(q) \in {"KeyExists", "EtagMismatch"} BY <3>2 DEF Precondition
      <4> QED BY <3>2, <4>1, RejectMatches
    <3>3. CASE Reject(m, "GenerationExhausted") BY <3>3, RejectMatches
    <3>4. CASE Precondition(q) = "none" /\ q.op = "Delete" /\ Remove(m, q)
      BY <3>4, RemoveMatches
    <3>5. CASE /\ Precondition(q) = "none" /\ q.op = "Put"
               /\ next_generation < MaxU64 /\ Store(m, q)
      BY <3>5, StoreMatches
    <3> QED BY <3>1, <3>2, <3>3, <3>4, <3>5 DEF Execute
  <2> QED BY <2>1, <2>2
<1> QED BY <1>1, <1>2, <1>3 DEF Next, ReadBarrier

\* The empty history describes the empty store.
LEMMA HistoryInit == Init => HistoryInv
<1> SUFFICES ASSUME Init PROVE HistoryInv OBVIOUS
<1>1. /\ executed = <<>> /\ Len(executed) = 0 /\ DOMAIN executed = {}
      /\ DOMAIN entries = {}
  BY DEF Init
<1>2. \A n : Changes(n, 1) = {} BY DEF Changes
<1>3. \A n : LastChange(n, 1) = 0 BY <1>2, Zenon DEF LastChange, Latest
<1>4. Len(executed) + 1 = 1 BY <1>1
<1>5. Bounded
  <2> SUFFICES ASSUME NEW n \in Name, NEW j \in 1..(Len(executed) + 1)
               PROVE  LastChange(n, j) \in 0..(j - 1)
    BY DEF Bounded
  <2>1. j = 1 /\ 0 \in 0..(j - 1) BY <1>4
  <2> QED BY <2>1, <1>3, Zenon
<1>6. EntriesMatchHistory
  <2>1. \A n : ~Live(n) BY <1>1 DEF Live
  <2>2. \A n : ~LiveBefore(n, 1) BY <1>3, Zenon DEF LiveBefore
  <2> QED BY <2>1, <2>2, <1>4, Zenon DEF EntriesMatchHistory
<1> QED BY <1>1, <1>5, <1>6 DEF HistoryInv, EtagsFollow, Generations, CompareAndSwap

\* HistoryInv is an invariant of the state machine.
THEOREM KvHistory == Spec => []HistoryInv
<1>1. KvInv /\ HistoryInv /\ [Next]_vars => HistoryInv' BY HistoryStep
<1> QED BY <1>1, HistoryInit, KvInvariant, PTL DEF Spec

\* The stored records are those of the last puts of the history
\* (apply_put, apply_delete).
THEOREM KvEntriesMatchHistory == Spec => []EntriesMatchHistory
<1>1. HistoryInv => EntriesMatchHistory BY DEF HistoryInv
<1> QED BY <1>1, KvHistory, PTL

\* No conditional mutation overwrites a write its client has not seen
\* (check_put_preconditions, apply_delete).
THEOREM KvCompareAndSwap == Spec => []CompareAndSwap
<1>1. HistoryInv => CompareAndSwap BY DEF HistoryInv
<1> QED BY <1>1, KvHistory, PTL
=============================================================================
