---------------------------- MODULE ApiVersions ----------------------------
(***************************************************************************)
(* Which API version `--latest` means (src/src/tools.rs, src/src/commands/ *)
(* catalog.rs).  `bcp types <ns> --latest` reduces the server's list of    *)
(* `type@version` entries in one pass that keeps the best entry of each    *)
(* type; `bcp schema <type> --latest` collects the versions of one type,   *)
(* sorts them and takes the first.  One agent calls the first to choose    *)
(* and the second to read, and expects both to mean the same version.      *)
(*                                                                         *)
(* A version is ordered by its first ten bytes, then by stability, then by *)
(* the rest: the record holds the rank of the first part, the rank of the  *)
(* rest and whether is_preview() finds it a preview.  Types are compared   *)
(* without regard to case, so a type is its lower-case name.               *)
(***************************************************************************)
EXTENDS Naturals, Sequences

CONSTANTS
    Types,                  \* resource types
    Versions,               \* API versions
    NoVersion,              \* of an entry without `@version`, or with an empty one
    Lists,                  \* the lists a server may answer with
    Needles,                \* for each --filter TEXT, the entries that contain it
    Requests                \* what `bcp schema` may be asked for

NoBest == [version |-> NoVersion, ok |-> FALSE]
Entries == [type : Types, version : Versions \cup {NoVersion}]

\* The text of a version determines whether it is a preview.
ASSUME VersionsAssumption ==
    /\ Versions \subseteq [head : Nat, tail : Nat, preview : BOOLEAN]
    /\ \A v, w \in Versions : v.head = w.head /\ v.tail = w.tail => v = w
    /\ NoVersion \notin Versions

\* clap refuses --latest with --api-version.
ASSUME RequestsAssumption ==
    Requests \subseteq {r \in [type : Types, inline : Versions \cup {NoVersion},
                               apiVersion : Versions \cup {NoVersion}, latest : BOOLEAN] :
                            ~(r.latest /\ r.apiVersion # NoVersion)}

ASSUME ListsAssumption == Lists \subseteq Seq(Entries)

VARIABLES
    list,                   \* what the server lists for the namespace
    needle,                 \* the entries that pass --filter
    includePreview,         \* --include-preview, given to both commands
    at,                     \* the next entry `types --latest` looks at
    best,                   \* the best entry so far of each type
    request,                \* what `bcp schema` is asked for
    resolved                \* the version it resolves to, or that it is refused

vars == <<list, needle, includePreview, at, best, request, resolved>>

NoRequest == [latest |-> FALSE]
Unasked == [kind |-> "unasked"]
Refused == [kind |-> "usage error"]
Resolved(v) == [kind |-> "version", version |-> v]

TypeOK ==
    /\ list \in Lists
    /\ needle \in Needles
    /\ includePreview \in BOOLEAN
    /\ at \in 1 .. Len(list) + 1
    /\ best \in [Types -> {NoBest} \cup [version : Versions, ok : BOOLEAN]]
    /\ request \in Requests \cup {NoRequest}
    /\ resolved \in {Unasked, Refused} \cup {Resolved(v) : v \in Versions}

\* cmp_api_version(v, w) == Greater
Newer(v, w) ==
    \/ v.head > w.head
    \/ v.head = w.head /\ ~v.preview /\ w.preview
    \/ v.head = w.head /\ v.preview = w.preview /\ v.tail > w.tail

Init ==
    /\ list \in Lists
    /\ needle \in Needles
    /\ includePreview \in BOOLEAN
    /\ at = 1
    /\ best = [t \in Types |-> NoBest]
    /\ request = NoRequest
    /\ resolved = Unasked

-----------------------------------------------------------------------------
(* bcp types --latest: one entry of the list at a time.                    *)

Entry == list[at]
CandidateOk == includePreview \/ ~Entry.version.preview

\* Mutant: the newer version wins, stable or not.
ReplacesByDate(ok, old) == old = NoBest \/ (old # NoBest /\ Newer(Entry.version, old.version))

\* The rule by which an entry replaces the best one of its type.
Replaces(ok, old) ==
    \/ old = NoBest
    \/ ok /\ ~old.ok
    \/ old # NoBest /\ ok = old.ok /\ Newer(Entry.version, old.version)

\* Mutant: two entries at once.
AdvanceTwo ==
    /\ at <= Len(list)
    /\ at' = at + 2
    /\ UNCHANGED <<list, needle, includePreview, request, resolved>>

Advance ==
    /\ at <= Len(list)
    /\ at' = at + 1
    /\ UNCHANGED <<list, needle, includePreview, request, resolved>>

\* Filtered out, or without a version.
Skip ==
    /\ Advance
    /\ Entry \notin needle \/ Entry.version = NoVersion
    /\ UNCHANGED best

Take ==
    /\ Advance
    /\ Entry \in needle /\ Entry.version # NoVersion
    /\ Replaces(CandidateOk, best[Entry.type])
    /\ best' = [best EXCEPT ![Entry.type] = [version |-> Entry.version, ok |-> CandidateOk]]

Keep ==
    /\ Advance
    /\ Entry \in needle /\ Entry.version # NoVersion
    /\ ~Replaces(CandidateOk, best[Entry.type])
    /\ UNCHANGED best

-----------------------------------------------------------------------------
(* bcp schema: the version of one type.                                    *)

Listed(t) == {list[i].version : i \in {j \in DOMAIN list : list[j].type = t}} \ {NoVersion}

\* Mutant: previews always compete.
RetainedAll(V) == V

\* Previews are dropped unless they are asked for or nothing else is there.
Retained(V) ==
    IF ~includePreview /\ \E v \in V : ~v.preview THEN {v \in V : ~v.preview} ELSE V

\* pick_latest(): the first of the retained, newest first.
IsLatest(v, V) == v \in Retained(V) /\ \A w \in Retained(V) : ~Newer(w, v)

Ask(r) ==
    /\ at > Len(list) /\ request = NoRequest
    /\ request' = r
    /\ UNCHANGED <<list, needle, includePreview, at, best, resolved>>

Conflicting(r) == r.inline # NoVersion /\ r.apiVersion # NoVersion /\ r.inline # r.apiVersion

Resolve ==
    /\ request # NoRequest /\ resolved = Unasked
    /\ \/ Conflicting(request) /\ resolved' = Refused
       \/ /\ request.latest
          /\ \E v \in Listed(request.type) : IsLatest(v, Listed(request.type)) /\ resolved' = Resolved(v)
       \/ request.latest /\ Listed(request.type) = {} /\ resolved' = Refused
       \/ /\ ~request.latest /\ ~Conflicting(request)
          /\ \E v \in {request.inline, request.apiVersion} \ {NoVersion} : resolved' = Resolved(v)
       \/ /\ ~request.latest /\ request.inline = NoVersion /\ request.apiVersion = NoVersion
          /\ resolved' = Refused
    /\ UNCHANGED <<list, needle, includePreview, at, best, request>>

Next == Skip \/ Take \/ Keep \/ (\E r \in Requests : Ask(r)) \/ Resolve

Spec == Init /\ [][Next]_vars

-----------------------------------------------------------------------------

\* The versions of a type among the entries that `types --latest` has seen.
Seen(t) ==
    {list[i].version : i \in {j \in 1 .. at - 1 : list[j].type = t /\ list[j] \in needle}}
        \ {NoVersion}

(* One pass in the server's order keeps, for each type, the newest version *)
(* seen so far, and a preview only where it was asked for or nothing else  *)
(* has been seen (latest_per_type), however the entries are ordered and    *)
(* repeated.                                                               *)
BestIsLatest ==
    \A t \in Types :
        IF Seen(t) = {} THEN best[t] = NoBest ELSE IsLatest(best[t].version, Seen(t))

(* What `schema <type> --latest` resolves is what `types --latest` printed *)
(* for the type, and it is refused exactly where nothing was printed: one  *)
(* is a pass that compares in the order of the list (latest_per_type), the *)
(* other sorts the versions of one type (pick_latest).  A filter that cuts *)
(* through the versions of the type is excluded.                           *)
SchemaAgreesWithTypes ==
    request.latest /\ resolved # Unasked
        /\ (\A i \in DOMAIN list : list[i].type = request.type => list[i] \in needle)
    => resolved = IF best[request.type] = NoBest
                  THEN Refused ELSE Resolved(best[request.type].version)

=============================================================================
