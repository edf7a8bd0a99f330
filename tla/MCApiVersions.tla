--------------------------- MODULE MCApiVersions ---------------------------
(* ApiVersions with two types and versions of every relation: two dates,   *)
(* a stable release of the older one and previews of both.                 *)
EXTENDS ApiVersions

MCVersions == {[head |-> 1, tail |-> 0, preview |-> FALSE],
               [head |-> 1, tail |-> 1, preview |-> TRUE],
               [head |-> 2, tail |-> 1, preview |-> TRUE],
               [head |-> 2, tail |-> 2, preview |-> TRUE]}

MCLists == UNION {[1 .. n -> Entries] : n \in 0 .. 3}

\* Everything, one type, and the stable versions only.
MCNeedles == {Entries, {e \in Entries : e.type = "a"},
              {e \in Entries : e.version # NoVersion /\ ~e.version.preview}}

\* --latest with and without an inline version, and every way of naming two
\* versions of which one is listed or not.
MCRequests ==
    LET Named == {NoVersion, [head |-> 1, tail |-> 0, preview |-> FALSE],
                  [head |-> 2, tail |-> 2, preview |-> TRUE]}
    IN  {r \in [type : Types, inline : Named, apiVersion : Named, latest : BOOLEAN] :
            /\ ~(r.latest /\ r.apiVersion # NoVersion)
            /\ r.type = "b" => r.inline = NoVersion /\ r.apiVersion = NoVersion}
=============================================================================
