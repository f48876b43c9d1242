------------------------------- MODULE Archive -------------------------------
(* The archive of the original client: its inventory, the files of it that   *)
(* a tool asks for, fetched by a pool of threads into a cache that outlives  *)
(* the tool, and the pack that a name is taken from.                         *)
(*                                                                           *)
(* Source: tools/metin_archive.py and the code references fetched the same   *)
(* way by tools/content_compile.py.  A content is a positive number.         *)
EXTENDS Integers, Sequences, SequencesExt, FiniteSets, FiniteSetsExt

CONSTANTS
    Archives,   \* [pages, total, index, answers, asked, offline]; a path is
                \* its place among the sorted paths
    Caches,     \* what the cache may hold at first, by path
    Thread,     \* the pool's
    Attempts,   \* how often a request is made
    MaxTools    \* how many tools are started, one after the other

VARIABLES
    archive,    \* the archive and what is asked of it
    tool,       \* "inventory", "fetching", "reading", "done", "failed", ...
    tools,      \* those started
    cached,     \* path -> what its file holds
    thread,     \* thread -> what it is doing: [is, path, content, attempt]
    asked,      \* the paths still in the queue
    used        \* what was read of each path

archiveVars == <<archive, tool, tools, cached, thread, asked, used>>

Absent == 0
Partial == -1       \* a file that is only partly written
Conflict == -2
Unindexed == 100000  \* the place of a pack that the index does not list

\* Pages and index are lists, the index shorter than the place of a pack that
\* is not in it; contents are numbers, and the cache may hold what is asked.
ASSUME ArchiveAssumption ==
    /\ \A a \in Archives :
         /\ a.pages \in Seq(Range(a.pages))
         /\ \A i \in DOMAIN a.pages :
              /\ a.pages[i] \in Seq(Range(a.pages[i]))
              /\ \A e \in Range(a.pages[i]) : e.content \in Nat
         /\ a.index \in Seq(Range(a.index)) /\ 2 * Len(a.index) < Unindexed
         /\ a.asked \in SUBSET Nat
         /\ \A p \in a.asked : a.answers[p].bytes \in Int
    /\ \A c \in Caches : /\ c \in [DOMAIN c -> Int]
                         /\ \A a \in Archives : a.asked \subseteq DOMAIN c
    /\ Attempts \in Nat

Idle == [is |-> "idle", path |-> 0, content |-> Absent, attempt |-> 0]

ArchiveStart ==
    /\ tool = "inventory" /\ tools = 1 /\ thread = [t \in Thread |-> Idle]
    /\ asked = {} /\ used = << >>

ArchiveInit == archive \in Archives /\ cached \in Caches /\ ArchiveStart

-----------------------------------------------------------------------------
(* inventory and resolve: an entry is [path, pack, name, content], a pack a  *)
(* pair of its name and whether it is the texture cache of that pack         *)

ArchiveEntries == FlattenSeq(archive.pages)

InventoryIsComplete ==
    /\ Len(ArchiveEntries) = archive.total
    /\ IsInjective([i \in DOMAIN ArchiveEntries |-> ArchiveEntries[i].path])

EntryOf(p) == CHOOSE e \in Range(ArchiveEntries) : e.path = p

Takes(s) == tool' = s /\ UNCHANGED <<archive, tools>>

Inventory ==
    /\ tool = "inventory"
    /\ Takes(IF InventoryIsComplete THEN "fetching" ELSE "failed")
    /\ asked' = archive.asked
    /\ UNCHANGED <<cached, thread, used>>

\* Each pack of the index is followed by its texture cache.
PackOrder == [i \in 1 .. 2 * Len(archive.index) |->
                <<archive.index[(i + 1) \div 2], i % 2 = 0>>]

RankFault(pack) ==
    Max({0} \cup {i \in DOMAIN PackOrder : PackOrder[i] = pack})

\* A pack that is listed twice has the place where it is listed first.
Rank(pack) ==
    Min({Unindexed} \cup {i \in DOMAIN PackOrder : PackOrder[i] = pack})

Contents(entries) == {e.content : e \in entries}

\* The content that a name resolves to.
ResolvedTo(name) ==
    LET matches == {e \in Range(ArchiveEntries) : e.name = name}
        best == Min({Rank(e.pack) : e \in matches})
        tied == {e \in matches : Rank(e.pack) = best}
    IN CASE matches = {} -> Absent
         [] Cardinality(Contents(matches)) = 1 -> Min(Contents(matches))
         [] OTHER -> IF best = Unindexed \/ Cardinality(Contents(tied)) > 1
                     THEN Conflict ELSE Min(Contents(tied))

-----------------------------------------------------------------------------
(* request, get and fetch_many *)

Does(t, to) == thread' = [thread EXCEPT ![t] = to]
IsAt(t, s) == tool = "fetching" /\ thread[t].is = s

\* A thread that raises: what is still queued is no longer started.
Raise(t) == /\ Does(t, [thread[t] EXCEPT !.is = "raised"]) /\ asked' = {}
            /\ UNCHANGED cached

Take(t) ==
    /\ IsAt(t, "idle") /\ asked # {}
    /\ LET p == Min(asked)
       IN Does(t, [is |-> IF cached[p] = Absent THEN "asking" ELSE "checking",
                   path |-> p, content |-> cached[p], attempt |-> 1])
    /\ asked' = asked \ {Min(asked)} /\ UNCHANGED <<archive, tool, tools, cached, used>>

Ask(t) ==
    /\ IsAt(t, "asking") /\ UNCHANGED <<archive, tool, tools, used>>
    /\ LET answer == archive.answers[thread[t].path]
       IN IF archive.offline \/ answer.claims # EntryOf(thread[t].path).content
          THEN Raise(t)
          ELSE /\ Does(t, [thread[t] EXCEPT !.is = "checking",
                                            !.content = answer.bytes])
               /\ UNCHANGED <<asked, cached>>

AskAgain(t) ==
    /\ IsAt(t, "asking") /\ ~archive.offline
    /\ UNCHANGED <<archive, tool, tools, used>>
    /\ IF thread[t].attempt = Attempts THEN Raise(t)
       ELSE /\ Does(t, [thread[t] EXCEPT !.attempt = @ + 1])
            /\ UNCHANGED <<asked, cached>>

CheckFault(t) ==
    /\ IsAt(t, "checking") /\ UNCHANGED <<archive, tool, tools, used>>
    /\ LET now == thread[t]
       IN IF now.content # EntryOf(now.path).content
               /\ cached[now.path] = Absent THEN Raise(t)
          ELSE IF cached[now.path] # Absent
          THEN Does(t, Idle) /\ UNCHANGED <<asked, cached>>
          ELSE /\ cached' = [cached EXCEPT ![now.path] = Partial]
               /\ Does(t, [now EXCEPT !.is = "writing"]) /\ UNCHANGED asked

\* The hash of what was fetched or found in the cache; opening the file to
\* write what was fetched leaves it partly written.
Check(t) ==
    /\ IsAt(t, "checking") /\ UNCHANGED <<archive, tool, tools, used>>
    /\ LET now == thread[t]
       IN IF now.content # EntryOf(now.path).content THEN Raise(t)
          ELSE IF cached[now.path] # Absent
          THEN Does(t, Idle) /\ UNCHANGED <<asked, cached>>
          ELSE /\ cached' = [cached EXCEPT ![now.path] = Partial]
               /\ Does(t, [now EXCEPT !.is = "writing"]) /\ UNCHANGED asked

Write(t) ==
    /\ IsAt(t, "writing") /\ UNCHANGED <<archive, tool, tools, asked, used>>
    /\ cached' = [cached EXCEPT ![thread[t].path] = thread[t].content]
    /\ Does(t, Idle)

\* The pool waits for every thread before anything is raised or returned.
EndFetch ==
    /\ tool = "fetching" /\ asked = {}
    /\ \A t \in Thread : thread[t].is \in {"idle", "raised"}
    /\ Takes(IF \E t \in Thread : thread[t].is = "raised" THEN "failed"
             ELSE "reading")
    /\ thread' = [t \in Thread |-> Idle] /\ UNCHANGED <<cached, asked, used>>

\* Whoever asked reads the files by their paths, without another check.
ReadFiles ==
    /\ tool = "reading" /\ Takes("done")
    /\ used' = [p \in archive.asked |-> cached[p]]
    /\ UNCHANGED <<cached, thread, asked>>

\* The process dies, or is started again after it failed.
Die == /\ tool = "fetching" /\ Takes("died")
       /\ thread' = [t \in Thread |-> Idle] /\ asked' = {}
       /\ UNCHANGED <<cached, used>>
Restart == /\ tool \in {"died", "failed"} /\ tools < MaxTools
           /\ tools' = tools + 1 /\ tool' = "inventory"
           /\ UNCHANGED <<archive, cached, thread, asked, used>>

ArchiveNext ==
    \/ \E t \in Thread :
         Take(t) \/ Ask(t) \/ AskAgain(t) \/ Check(t) \/ Write(t)
    \/ Inventory \/ EndFetch \/ ReadFiles \/ Die \/ Restart

ArchiveSpec == ArchiveInit /\ [][ArchiveNext]_archiveVars

-----------------------------------------------------------------------------
\* Whatever the cache held, the network answered or an earlier tool left
\* half written, what is used is what the inventory names.
OnlyPinnedIsUsed ==
    tool = "done" => \A p \in archive.asked : used[p] = EntryOf(p).content

\* The packs are registered in the order of the index, and a name that one
\* has registered stays: what it holds before place n.
RegisteredAs(name) ==
    LET Of(pack) == Contents({e \in Range(ArchiveEntries) : e.name = name
                                                       /\ e.pack = pack})
        before[n \in 0 .. Len(PackOrder)] ==
          IF n = 0 THEN {}
          ELSE IF before[n - 1] # {} THEN before[n - 1]
          ELSE Of(PackOrder[n])
    IN before[Len(PackOrder)]

\* A name in an indexed pack resolves to what the original client, which
\* never replaces a registered name, would find under it.
FirstPackWins ==
    tool = "done" =>
      \A name \in {e.name : e \in Range(ArchiveEntries)} :
        RegisteredAs(name) # {} /\ ResolvedTo(name) # Conflict
          => RegisteredAs(name) = {ResolvedTo(name)}

\* The files that a build reads are pinned, and each name is one of them.
CachedIsPinned == OnlyPinnedIsUsed /\ FirstPackWins
=============================================================================
