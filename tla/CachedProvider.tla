--------------------------- MODULE CachedProvider ---------------------------
(***************************************************************************)
(* CachedProvider: an RPC provider that remembers answers in memory, loads *)
(* them from a JSON file when it is created and writes them back when it   *)
(* is dropped.  FileProvider is the same cache over a provider that panics *)
(* on every query: it replays a file and never saves.  Several providers   *)
(* may use one file, as the tests do: they run in parallel threads of one  *)
(* process, each with a provider of its own.                               *)
(*                                                                         *)
(* A query is a key of one of the cache's maps.  The node answers None to  *)
(* a query for the header of a block it does not have, and fails any other *)
(* query about such a block.                                               *)
(***************************************************************************)
EXTENDS Naturals

CONSTANTS
  Providers,      \* threads, each with one provider at a time
  Queries,
  HeaderQueries,  \* get_block_header: the only answers that may be None
  Answers, None,
  Absent,         \* no entry in the cache
  NoFile,         \* the file does not exist
  Torn,           \* a file that does not parse: empty, partial or mixed up
  Nobody,
  MaxMoves,       \* changes of the node's answers
  MaxFaults       \* crashes and write errors

ASSUME CacheAssumption ==
  /\ HeaderQueries \subseteq Queries
  /\ None \notin Answers /\ Absent \notin Answers \cup {None}
  /\ Nobody \notin Providers
  /\ MaxMoves \in Nat /\ MaxFaults \in Nat

VARIABLES
  node,     \* what the RPC node answers now
  moves,
  file,
  pc,       \* "idle", "live" (caching), "replay" (FileProvider), "saving"
  cache,
  tail,     \* who truncated the file last, if nothing was written since
  faults,
  told,     \* history: what the node has ever answered
  given,    \* history: what each provider has answered since it was created
  saved,    \* history: the answers held by providers that saved while nobody else cached
  shared    \* history: two caching providers used the file at a time

history == <<told, given, saved, shared>>
cacheVars == <<node, moves, file, pc, cache, tail, faults, history>>

Known(q) == Answers \cup IF q \in HeaderQueries THEN {None} ELSE {}
Empty == [q \in Queries |-> Absent]
Cached == {c \in [Queries -> Answers \cup {None, Absent}] :
             \A q \in Queries : c[q] \in Known(q) \cup {Absent}}

ASSUME FileAssumption == NoFile # Torn /\ NoFile \notin Cached /\ Torn \notin Cached

CacheTypeOK ==
  /\ node \in [Queries -> Answers \cup {None}]
  /\ moves \in 0..MaxMoves /\ faults \in 0..MaxFaults
  /\ file \in Cached \cup {NoFile, Torn}
  /\ pc \in [Providers -> {"idle", "live", "replay", "saving"}]
  /\ cache \in [Providers -> Cached]
  /\ tail \in Providers \cup {Nobody}
  /\ told \in [Queries -> SUBSET (Answers \cup {None})]
  /\ given \in [Providers -> [Queries -> SUBSET (Answers \cup {None})]]
  /\ saved \subseteq Queries \X (Answers \cup {None})
  /\ shared \in BOOLEAN

\* No provider but p is caching for the file.
CachesAlone(p) == \A o \in Providers \ {p} : pc[o] \notin {"live", "saving"}

\* The node's answers that arrive as Ok.
Ok(q, a) == a \in Known(q)

CacheInit ==
  /\ node \in [Queries -> Answers \cup {None}]
  /\ moves = 0 /\ faults = 0
  /\ file = NoFile
  /\ pc = [p \in Providers |-> "idle"]
  /\ cache = [p \in Providers |-> Empty]
  /\ tail = Nobody
  /\ told = [q \in Queries |-> {node[q]} \cap Known(q)]
  /\ given = [p \in Providers |-> [q \in Queries |-> {}]]
  /\ saved = {}
  /\ shared = FALSE

-----------------------------------------------------------------------------
(* Creation *)

Start(p, mode, content) ==
  /\ pc[p] = "idle"
  /\ pc' = [pc EXCEPT ![p] = mode]
  /\ cache' = [cache EXCEPT ![p] = content]
  /\ given' = [given EXCEPT ![p] = [q \in Queries |-> {}]]
  /\ shared' = (shared \/ (mode = "live" /\ ~CachesAlone(p)))
  /\ UNCHANGED <<node, moves, file, tail, faults, told, saved>>

\* Faulty variant: a file that does not parse is an empty cache.
NewOverTorn(p) == Start(p, "live", IF file \in {NoFile, Torn} THEN Empty ELSE file)

\* CachedProvider::new: a missing file is an empty cache, a file that does
\* not parse is an error and no provider is created.
New(p) == /\ file # Torn
          /\ Start(p, "live", IF file = NoFile THEN Empty ELSE file)

\* FileProvider::from_file: a missing file is an error too.
FromFile(p) == file \notin {NoFile, Torn} /\ Start(p, "replay", file)

-----------------------------------------------------------------------------
(* Queries *)

Give(p, q, a) ==
  /\ given' = [given EXCEPT ![p][q] = @ \cup {a}]
  /\ UNCHANGED <<node, moves, file, pc, tail, faults, told, saved, shared>>

\* Entry::Occupied.
Hit(p, q) ==
  /\ pc[p] \in {"live", "replay"}
  /\ cache[p][q] # Absent
  /\ Give(p, q, cache[p][q])
  /\ UNCHANGED cache

\* Faulty variant: a failure is remembered as the answer None.
FetchFailures(p, q) ==
  /\ pc[p] = "live"
  /\ cache[p][q] = Absent
  /\ cache' = [cache EXCEPT ![p][q] = node[q]]
  /\ Give(p, q, node[q])

\* Faulty variant: the key leaves out what tells the queries apart.
FetchUnderOneKey(p, q) ==
  /\ pc[p] = "live"
  /\ cache[p][q] = Absent
  /\ Ok(q, node[q])
  /\ cache' = [cache EXCEPT ![p] = [k \in Queries |->
                                      IF @[k] = Absent THEN node[q] ELSE @[k]]]
  /\ Give(p, q, node[q])

\* Entry::Vacant: an answer is inserted and returned; an error of the node
\* returns through `?` and changes nothing.
Fetch(p, q) ==
  /\ pc[p] = "live"
  /\ cache[p][q] = Absent
  /\ Ok(q, node[q])
  /\ cache' = [cache EXCEPT ![p][q] = node[q]]
  /\ Give(p, q, node[q])

\* Entry::Vacant over NullProvider panics; unwinding drops the provider, which
\* has no path to save to.
PanicOnMiss(p, q) ==
  /\ pc[p] = "replay"
  /\ cache[p][q] = Absent
  /\ pc' = [pc EXCEPT ![p] = "idle"]
  /\ UNCHANGED <<node, moves, file, cache, tail, faults, history>>

-----------------------------------------------------------------------------
(* Drop *)

\* A FileProvider has no file_path: nothing is saved.
DropReplay(p) ==
  /\ pc[p] = "replay"
  /\ pc' = [pc EXCEPT ![p] = "idle"]
  /\ UNCHANGED <<node, moves, file, cache, tail, faults, history>>

\* save: File::create truncates the file at once ...
Truncate(p) ==
  /\ pc[p] = "live"
  /\ pc' = [pc EXCEPT ![p] = "saving"]
  /\ file' = Torn
  /\ tail' = p
  /\ UNCHANGED <<node, moves, cache, faults, history>>

Finish(p, contents) ==
  /\ pc[p] = "saving"
  /\ pc' = [pc EXCEPT ![p] = "idle"]
  /\ file' \in contents
  /\ tail' = Nobody
  /\ saved' = saved \cup {<<q, cache[p][q]>> :
                            q \in {k \in Queries : CachesAlone(p) /\ cache[p][k] # Absent}}
  /\ UNCHANGED <<node, moves, cache, faults, told, given, shared>>

\* Faulty variant: the writer is forgotten before its buffer is flushed.
WriteUnflushed(p) == Finish(p, {cache[p], Torn})

\* ... and the cache is written at the offset the writer has reached.  If
\* somebody else truncated or wrote the file meanwhile, it holds this cache
\* alone or a mixture, depending on the lengths of the two.
Write(p) == Finish(p, IF tail = p THEN {cache[p]} ELSE {cache[p], Torn})

\* The disk refuses the data: to_writer_pretty fails and the drop panics, or the
\* last part fails when the BufWriter is dropped, where errors are ignored.
\* Either way the provider is gone and the file holds some of its data or none.
WriteFails(p) ==
  /\ pc[p] = "saving"
  /\ faults < MaxFaults
  /\ faults' = faults + 1
  /\ pc' = [pc EXCEPT ![p] = "idle"]
  /\ file' \in {file, Torn}
  /\ tail' = Nobody
  /\ UNCHANGED <<node, moves, cache, history>>

-----------------------------------------------------------------------------
(* Environment *)

\* The node's view changes: a block arrives, or is replaced by another.
NodeMoves(q, a) ==
  /\ moves < MaxMoves
  /\ a # node[q]
  /\ node' = [node EXCEPT ![q] = a]
  /\ moves' = moves + 1
  /\ told' = [told EXCEPT ![q] = @ \cup {a}]
  /\ UNCHANGED <<file, pc, cache, tail, faults, given, saved, shared>>

\* The process ends without dropping anything; a save under way may have written
\* a part.
Crash ==
  /\ faults < MaxFaults
  /\ faults' = faults + 1
  /\ \/ UNCHANGED file
     \/ file' = Torn /\ \E p \in Providers : pc[p] = "saving"
  /\ pc' = [p \in Providers |-> "idle"]
  /\ tail' = Nobody
  /\ UNCHANGED <<node, moves, cache, history>>

CacheNext ==
  \/ \E p \in Providers :
       \/ New(p) \/ FromFile(p) \/ DropReplay(p) \/ Truncate(p) \/ Write(p)
       \/ WriteFails(p)
       \/ \E q \in Queries : Hit(p, q) \/ Fetch(p, q) \/ PanicOnMiss(p, q)
  \/ \E q \in Queries, a \in Answers : NodeMoves(q, a)
  \/ Crash

CacheSpec == CacheInit /\ [][CacheNext]_cacheVars

-----------------------------------------------------------------------------
(* Properties *)

\* What a provider answers, after any number of saves, loads and faults of
\* whatever providers, was the node's answer to that very query at some time.
AnswersOnceTrue ==
  \A p \in Providers, q \in Queries : given[p][q] \subseteq told[q]

\* A file that does not parse comes from a crash, a write error or two savers: a
\* provider alone leaves a file that the next one can load.
TornOnlyByInterruption ==
  (file = Torn /\ \A p \in Providers : pc[p] # "saving")
    => faults > 0 \/ shared

\* Providers that share the file lose at most what they fetched since: the answers of
\* a save that completed while nobody else cached are in every file that can be
\* loaded afterwards, through any overlap of later loads and saves, and any fault.
SavedIsKept ==
  file # Torn => \A e \in saved : file[e[1]] = e[2]
=============================================================================
