------------------------- MODULE ApiVersionsProofs -------------------------
(***************************************************************************)
(* Proofs about ApiVersions, for any types, versions, lists and filters:   *)
(* the single pass of `types --latest` keeps the latest version of what it *)
(* has seen, and `schema --latest` resolves the same one.                  *)
(***************************************************************************)
EXTENDS ApiVersions, TLAPS

\* cmp_api_version is a total order of versions.
LEMMA NewerIsTotal ==
  ASSUME NEW v \in Versions, NEW w \in Versions
  PROVE  /\ ~(Newer(v, w) /\ Newer(w, v))
         /\ v # w => Newer(v, w) \/ Newer(w, v)
  BY VersionsAssumption DEF Newer

\* cmp_api_version is transitive.
LEMMA NewerIsTransitive ==
  ASSUME NEW u \in Versions, NEW v \in Versions, NEW w \in Versions,
         ~Newer(v, u), ~Newer(w, v)
  PROVE  ~Newer(w, u)
  BY VersionsAssumption DEF Newer

\* A set of versions has one latest version at most.
LEMMA LatestIsUnique ==
  ASSUME NEW V \in SUBSET Versions, NEW v \in V, NEW w \in V, IsLatest(v, V), IsLatest(w, V)
  PROVE  v = w
  BY NewerIsTotal DEF IsLatest

\* What one more version does to the latest of those seen before: it takes the
\* place by the rule of latest_per_type, or leaves it.
LEMMA LatestOfMore ==
  ASSUME NEW V \in SUBSET Versions, NEW v \in V, NEW w \in Versions, IsLatest(v, V),
         includePreview \in BOOLEAN
  PROVE  LET okV == includePreview \/ ~v.preview
             okW == includePreview \/ ~w.preview
         IN  IF (okW /\ ~okV) \/ (okW = okV /\ Newer(w, v))
             THEN IsLatest(w, V \cup {w}) ELSE IsLatest(v, V \cup {w})
  <1> DEFINE okV == includePreview \/ ~v.preview
             okW == includePreview \/ ~w.preview
  <1>0. \A x \in Versions : x.preview \in BOOLEAN
    BY VersionsAssumption
  <1>1. CASE includePreview
    BY <1>1, NewerIsTotal, NewerIsTransitive DEF IsLatest, Retained
  <1>2. CASE ~includePreview /\ ~v.preview /\ ~w.preview
    BY <1>2, <1>0, NewerIsTotal, NewerIsTransitive DEF IsLatest, Retained
  <1>3. CASE ~includePreview /\ ~v.preview /\ w.preview
    BY <1>3, <1>0, NewerIsTotal, NewerIsTransitive DEF IsLatest, Retained
  <1>4. CASE ~includePreview /\ v.preview /\ ~w.preview
    BY <1>4, <1>0, NewerIsTotal, NewerIsTransitive DEF IsLatest, Retained
  <1>5. CASE ~includePreview /\ v.preview /\ w.preview
    BY <1>5, <1>0, NewerIsTotal, NewerIsTransitive DEF IsLatest, Retained
  <1>6. QED
    BY <1>0, <1>1, <1>2, <1>3, <1>4, <1>5

\* What the pass has seen grows by the entry it takes in, and by no other.
LEMMA SeenGrows ==
  ASSUME TypeOK, Advance, NEW t \in Types, UNCHANGED <<list, needle>>
  PROVE  Seen(t)' = IF Entry \in needle /\ Entry.version # NoVersion /\ Entry.type = t
                    THEN Seen(t) \cup {Entry.version} ELSE Seen(t)
  <1>1. list \in Seq(Entries) /\ at \in 1 .. Len(list) /\ at' = at + 1
    BY ListsAssumption DEF TypeOK, Advance
  <1>2. \A i : i \in 1 .. at' - 1 <=> i \in 1 .. at - 1 \/ i = at
    BY <1>1
  <1>3. QED
    BY <1>1, <1>2 DEF Seen, Entry

\* The pass has seen versions only, and the entry it looks at is one of a type.
LEMMA EntryTypes ==
  ASSUME TypeOK
  PROVE  /\ \A t \in Types : Seen(t) \subseteq Versions
         /\ at <= Len(list) => Entry \in Entries
  <1>1. list \in Seq(Entries)
    BY ListsAssumption DEF TypeOK
  <1>2. \A i \in 1 .. Len(list) : list[i] \in Entries
    BY <1>1
  <1>3. at - 1 \in 0 .. Len(list) /\ at \in 1 .. Len(list) + 1
    BY <1>1 DEF TypeOK
  <1>4. \A i \in 1 .. at - 1 : list[i] \in Entries
    BY <1>1, <1>2, <1>3
  <1>5. QED
    BY <1>1, <1>2, <1>3, <1>4 DEF Seen, Entry, Entries

\* Nothing but the versions of the type itself counts among its versions.
LEMMA ListedTypes ==
  ASSUME TypeOK, NEW t \in Types
  PROVE  Listed(t) \subseteq Versions
  <1>1. list \in Seq(Entries)
    BY ListsAssumption DEF TypeOK
  <1>2. \A i \in DOMAIN list : list[i] \in Entries
    BY <1>1
  <1>3. QED
    BY <1>2 DEF Listed, Entries

\* ok of a best entry says whether it may be printed while a stable one exists.
BestOk ==
    \A t \in Types : best[t] # NoBest => best[t].ok = (includePreview \/ ~best[t].version.preview)

\* The schema command asks only when the pass is over, and gets what
\* pick_latest finds in the server's list, or is refused where it finds nothing.
ResolvedIsLatest ==
    /\ request # NoRequest => at = Len(list) + 1
    /\ request = NoRequest => resolved = Unasked
    /\ request.latest /\ resolved # Unasked
       => \/ Listed(request.type) = {} /\ resolved = Refused
          \/ \E v \in Listed(request.type) :
                IsLatest(v, Listed(request.type)) /\ resolved = Resolved(v)

VersionsInv == TypeOK /\ BestOk /\ BestIsLatest /\ ResolvedIsLatest

\* Before the pass nothing is seen and nothing is asked.
LEMMA VersionsInit == Init => VersionsInv
  <1> SUFFICES ASSUME Init PROVE VersionsInv
    OBVIOUS
  <1>1. list \in Seq(Entries) /\ at = 1
    BY ListsAssumption DEF Init
  <1>2. TypeOK
    BY <1>1 DEF Init, TypeOK
  <1>3. \A t \in Types : Seen(t) = {} /\ best[t] = NoBest
    <2>1. 1 .. at - 1 = {}
      BY <1>1
    <2>2. \A t \in Types : Seen(t) = {}
      BY <2>1 DEF Seen
    <2>3. QED
      BY <2>2 DEF Init
  <1>4. request.latest = FALSE /\ request = NoRequest /\ resolved = Unasked
    BY DEF Init, NoRequest
  <1>5. QED
    BY <1>2, <1>3, <1>4 DEF VersionsInv, BestOk, BestIsLatest, ResolvedIsLatest

\* An entry of the list changes what is seen of its type alone, and the best
\* entry of that type follows by the rule of latest_per_type.
LEMMA PassNext ==
  ASSUME VersionsInv, Skip \/ Take \/ Keep
  PROVE  BestOk' /\ BestIsLatest'
  <1> USE DEF VersionsInv
  <1>1. Advance /\ UNCHANGED <<list, needle, includePreview>> /\ includePreview \in BOOLEAN
    BY DEF Skip, Take, Keep, Advance, TypeOK
  <1>2. \A t \in Types : Seen(t) \subseteq Versions
    BY EntryTypes
  <1>3. Entry \in Entries
    BY <1>1, EntryTypes DEF Advance
  <1>4. \A V : \A v : IsLatest(v, V)' <=> IsLatest(v, V)
    BY <1>1 DEF IsLatest, Retained
  <1>5. CASE Skip
    <2>1. \A t \in Types : Seen(t)' = Seen(t) /\ best'[t] = best[t]
      BY <1>1, <1>5, SeenGrows DEF Skip
    <2>2. QED
      BY <1>1, <1>4, <2>1 DEF BestOk, BestIsLatest
  <1>6. CASE Take \/ Keep
    <2>0. PICK t1 \in Types, w \in Versions, okW \in BOOLEAN :
            Entry.type = t1 /\ Entry.version = w /\ okW = CandidateOk
      BY <1>1, <1>3, <1>6, VersionsAssumption DEF Take, Keep, Entries, CandidateOk
    <2>1. /\ Entry \in needle /\ Entry.version # NoVersion
          /\ okW = (includePreview \/ ~w.preview)
      BY <1>6, <2>0 DEF Take, Keep, CandidateOk
    <2>2. ASSUME NEW t \in Types, t # t1
          PROVE  Seen(t)' = Seen(t) /\ best'[t] = best[t]
      BY <1>1, <1>6, <2>0, <2>1, <2>2, SeenGrows DEF Take, Keep, TypeOK
    <2>3. Seen(t1)' = Seen(t1) \cup {w}
      BY <1>1, <2>0, <2>1, SeenGrows
    <2> DEFINE old == best[t1]
               new == best'[t1]
    <2>4. new = IF Replaces(okW, old) THEN [version |-> w, ok |-> okW] ELSE old
      BY <1>6, <2>0, <2>1 DEF Take, Keep, TypeOK
    <2>5. new # NoBest /\ new.ok = (includePreview \/ ~new.version.preview)
          /\ IsLatest(new.version, Seen(t1) \cup {w})
      <3>1. CASE old = NoBest
        <4>1. Seen(t1) = {}
          <5> SUFFICES ASSUME Seen(t1) # {} PROVE FALSE
            OBVIOUS
          <5>1. old.version \in Retained(Seen(t1))
            BY <2>0 DEF BestIsLatest, IsLatest
          <5>2. old.version \in Versions
            BY <1>2, <2>0, <5>1 DEF Retained
          <5>3. QED
            BY <3>1, <5>2, VersionsAssumption DEF NoBest
        <4>2. new = [version |-> w, ok |-> okW] /\ w # NoVersion
          BY <2>0, <2>1, <2>4, <3>1, VersionsAssumption DEF Replaces
        <4>3. new # NoBest
          BY <4>2 DEF NoBest
        <4>4. IsLatest(w, {w})
          BY <2>0, NewerIsTotal DEF IsLatest, Retained
        <4>5. QED
          BY <2>1, <4>1, <4>2, <4>3, <4>4
      <3>2. CASE old # NoBest
        <4>1. old.ok = (includePreview \/ ~old.version.preview)
          BY <2>0, <2>1, <3>2 DEF BestOk
        <4>2. old.version \in Seen(t1) /\ IsLatest(old.version, Seen(t1))
          BY <2>0, <2>1, <3>2 DEF BestIsLatest, IsLatest, Retained
        <4>3. Replaces(okW, old) <=> (okW /\ ~old.ok) \/ (okW = old.ok /\ Newer(w, old.version))
          BY <2>0, <3>2 DEF Replaces
        <4>4. CASE Replaces(okW, old)
          <5>1. IsLatest(w, Seen(t1) \cup {w})
            BY <1>1, <1>2, <2>0, <2>1, <4>1, <4>2, <4>3, <4>4, LatestOfMore
          <5>2. new = [version |-> w, ok |-> okW] /\ w # NoVersion
            BY <2>0, <2>1, <2>4, <4>4
          <5>3. QED
            BY <2>1, <5>1, <5>2 DEF NoBest
        <4>5. CASE ~Replaces(okW, old)
          <5>1. IsLatest(old.version, Seen(t1) \cup {w})
            BY <1>1, <1>2, <2>0, <2>1, <4>1, <4>2, <4>3, <4>5, LatestOfMore
          <5>2. QED
            BY <2>4, <3>2, <4>1, <4>5, <5>1
        <4>6. QED
          BY <4>4, <4>5
      <3>3. QED
        BY <3>1, <3>2
    <2>6. QED
      BY <1>1, <1>4, <2>0, <2>1, <2>2, <2>3, <2>5 DEF BestOk, BestIsLatest
  <1>7. QED
    BY <1>5, <1>6

\* Every step keeps the types.
LEMMA TypeNext ==
  ASSUME TypeOK, [Next]_vars
  PROVE  TypeOK'
  <1>1. list \in Seq(Entries)
    BY ListsAssumption DEF TypeOK
  <1>2. CASE Skip \/ Keep
    BY <1>1, <1>2 DEF Skip, Keep, Advance, TypeOK
  <1>3. CASE Take
    <2>1. Entry.type \in Types /\ Entry.version \in Versions /\ CandidateOk \in BOOLEAN
      BY <1>3, EntryTypes, VersionsAssumption DEF Take, Advance, Entries, CandidateOk, TypeOK
    <2>2. [version |-> Entry.version, ok |-> CandidateOk] \in [version : Versions, ok : BOOLEAN]
      BY <2>1
    <2>3. QED
      BY <1>1, <1>3, <2>1, <2>2 DEF Take, Advance, TypeOK
  <1>4. CASE \E r \in Requests : Ask(r)
    BY <1>4 DEF Ask, TypeOK
  <1>5. CASE Resolve
    <2>1. \A r \in Requests : {r.inline, r.apiVersion} \ {NoVersion} \subseteq Versions
                              /\ r.type \in Types
      BY RequestsAssumption
    <2>2. request \in Requests
      BY <1>5 DEF Resolve, TypeOK
    <2>3. Listed(request.type) \subseteq Versions
      BY <2>1, <2>2, ListedTypes
    <2>4. resolved' = Refused \/ \E v \in Versions : resolved' = Resolved(v)
      BY <1>5, <2>1, <2>2, <2>3 DEF Resolve
    <2>5. QED
      BY <1>5, <2>4 DEF Resolve, TypeOK
  <1>6. CASE UNCHANGED vars
    BY <1>6 DEF vars, TypeOK
  <1>7. QED
    BY <1>2, <1>3, <1>4, <1>5, <1>6 DEF Next

\* Asking and resolving leave the pass alone, and follow pick_latest.
LEMMA SchemaNext ==
  ASSUME VersionsInv, [Next]_vars
  PROVE  ResolvedIsLatest'
  <1> USE DEF VersionsInv
  <1>1. CASE Skip \/ Take \/ Keep
    <2>1. request = NoRequest /\ resolved = Unasked /\ UNCHANGED <<request, resolved>>
      BY <1>1 DEF Skip, Take, Keep, Advance, ResolvedIsLatest, TypeOK
    <2>2. QED
      BY <2>1 DEF ResolvedIsLatest, NoRequest
  <1>2. CASE \E r \in Requests : Ask(r)
    <2>1. resolved' = Unasked /\ at' = at /\ list' = list
      BY <1>2 DEF Ask, ResolvedIsLatest
    <2>2. at = Len(list) + 1
      <3>1. list \in Seq(Entries) /\ at \in 1 .. Len(list) + 1 /\ at > Len(list)
        BY <1>2, ListsAssumption DEF Ask, TypeOK
      <3>2. QED
        BY <3>1
    <2>3. QED
      BY <2>1, <2>2 DEF ResolvedIsLatest
  <1>3. CASE Resolve
    <2>1. request \in Requests
      BY <1>3 DEF Resolve, TypeOK
    <2>2. request.latest => ~Conflicting(request)
      BY <2>1, RequestsAssumption DEF Conflicting
    <2>3. UNCHANGED <<list, includePreview, request, at>>
      BY <1>3 DEF Resolve
    <2>4. request.latest =>
             \/ Listed(request.type) = {} /\ resolved' = Refused
             \/ \E v \in Listed(request.type) :
                   IsLatest(v, Listed(request.type)) /\ resolved' = Resolved(v)
      BY <1>3, <2>2 DEF Resolve
    <2>5. \A u : Listed(u)' = Listed(u)
      BY <2>3 DEF Listed
    <2>6. \A v, V : IsLatest(v, V)' <=> IsLatest(v, V)
      BY <2>3 DEF IsLatest, Retained
    <2>7. request # NoRequest
      BY <1>3 DEF Resolve
    <2>8. QED
      BY <2>3, <2>4, <2>5, <2>6, <2>7 DEF ResolvedIsLatest
  <1>4. CASE UNCHANGED vars
    <2>1. UNCHANGED <<list, includePreview, at, request, resolved>>
      BY <1>4 DEF vars
    <2>2. \A u : Listed(u)' = Listed(u)
      BY <2>1 DEF Listed
    <2>3. \A v, V : IsLatest(v, V)' <=> IsLatest(v, V)
      BY <2>1 DEF IsLatest, Retained
    <2>4. QED
      BY <2>1, <2>2, <2>3 DEF ResolvedIsLatest
  <1>5. QED
    BY <1>1, <1>2, <1>3, <1>4 DEF Next

\* Every step keeps the invariant.
LEMMA VersionsNext ==
  ASSUME VersionsInv, [Next]_vars
  PROVE  VersionsInv'
  <1> USE DEF VersionsInv
  <1>1. CASE Skip \/ Take \/ Keep
    BY <1>1, PassNext, TypeNext, SchemaNext
  <1>2. CASE (\E r \in Requests : Ask(r)) \/ Resolve \/ UNCHANGED vars
    <2>1. UNCHANGED <<list, needle, includePreview, at, best>>
      BY <1>2 DEF Ask, Resolve, vars
    <2>2. \A u : Seen(u)' = Seen(u)
      BY <2>1 DEF Seen
    <2>3. \A v, V : IsLatest(v, V)' <=> IsLatest(v, V)
      BY <2>1 DEF IsLatest, Retained
    <2>4. BestOk' /\ BestIsLatest'
      BY <2>1, <2>2, <2>3 DEF BestOk, BestIsLatest
    <2>5. QED
      BY <2>4, TypeNext, SchemaNext
  <1>3. QED
    BY <1>1, <1>2 DEF Next

\* The inductive invariant of ApiVersions.
THEOREM VersionsInvariance == Spec => []VersionsInv
  BY VersionsInit, VersionsNext, PTL DEF Spec

\* Every variable of ApiVersions keeps its type.
THEOREM VersionsTypeCorrect == Spec => []TypeOK
  <1>1. VersionsInv => TypeOK
    BY DEF VersionsInv
  <1>2. QED
    BY <1>1, VersionsInvariance, PTL

\* However a server orders and repeats the entries, the pass of latest_per_type
\* holds the latest version of each type among those it has seen.
THEOREM LatestPerType == Spec => []BestIsLatest
  <1>1. VersionsInv => BestIsLatest
    BY DEF VersionsInv
  <1>2. QED
    BY <1>1, VersionsInvariance, PTL

\* pick_latest and latest_per_type find the same version of a type.
THEOREM Agreement == Spec => []SchemaAgreesWithTypes
  <1>1. VersionsInv => SchemaAgreesWithTypes
    <2> SUFFICES ASSUME VersionsInv, request.latest, resolved # Unasked,
                        \A i \in DOMAIN list : list[i].type = request.type => list[i] \in needle
                 PROVE  resolved = IF best[request.type] = NoBest
                                   THEN Refused ELSE Resolved(best[request.type].version)
      BY DEF SchemaAgreesWithTypes
    <2> USE DEF VersionsInv
    <2> DEFINE t == request.type
    <2>1. request \in Requests /\ request # NoRequest
      BY DEF TypeOK, NoRequest
    <2>2. t \in Types
      BY <2>1, RequestsAssumption
    <2>3. list \in Seq(Entries) /\ at = Len(list) + 1 /\ DOMAIN list = 1 .. at - 1
      BY <2>1, ListsAssumption DEF ResolvedIsLatest, TypeOK
    <2>4. Seen(t) = Listed(t)
      BY <2>3 DEF Seen, Listed
    <2>5. Listed(t) \subseteq Versions
      BY <2>2, ListedTypes
    <2>6. CASE Listed(t) = {} /\ resolved = Refused
      BY <2>2, <2>4, <2>6 DEF BestIsLatest
    <2>7. ASSUME NEW v \in Listed(t), IsLatest(v, Listed(t)), resolved = Resolved(v)
          PROVE  resolved = IF best[t] = NoBest THEN Refused ELSE Resolved(best[t].version)
      <3>1. IsLatest(best[t].version, Listed(t))
        BY <2>2, <2>4, <2>7 DEF BestIsLatest
      <3>2. best[t].version \in Listed(t)
        BY <3>1 DEF IsLatest, Retained
      <3>3. best[t].version = v
        BY <2>5, <2>7, <3>1, <3>2, LatestIsUnique
      <3>4. best[t] # NoBest
        BY <2>5, <3>2, VersionsAssumption DEF NoBest
      <3>5. QED
        BY <2>7, <3>3, <3>4
    <2>8. QED
      BY <2>6, <2>7 DEF ResolvedIsLatest
  <1>2. QED
    BY <1>1, VersionsInvariance, PTL
=============================================================================
