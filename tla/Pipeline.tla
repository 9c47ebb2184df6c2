------------------------------ MODULE Pipeline ------------------------------
(***************************************************************************)
(* The way of an edition from the source to the search index: Collection   *)
(* and Indexing joined by the bucket (pdf) and by the topic gazette.fetched *)
(* (queue).  The steps of the scraper in Indexing are here the ones of     *)
(* Collection itself, and the messages Collection publishes are the ones   *)
(* Indexing takes.  The bucket keeps what it is given: a bucket that starts *)
(* empty belongs to a deployment without a queue, where Publish waits for  *)
(* the handler.                                                            *)
(***************************************************************************)
EXTENDS Collection, TLC

CONSTANTS
  Workers, PoolSize, MaxReindex

ASSUME PipelineAssumption ==
  /\ Sums # {} /\ Absent \notin Paths
  /\ IsFiniteSet(Workers)
  /\ PoolSize \in Nat \ {0}
  /\ MaxReindex \in Nat

VARIABLES
  gazettes, acts, told, workPc, event, text, conns,    \* the worker
  inserting, reindex, reindexed

scraper == <<site, revisions, listings, marker, announced, run, reports>>
worker == <<gazettes, acts, told, workPc, event, text, conns, inserting,
            reindex, reindexed>>
PipelineVars == <<pdf, queue, faults, scraper, worker>>

X == INSTANCE Indexing WITH pc <- workPc, MaxFetches <- 0, fetches <- 0

PipelineInit == Init /\ X!Init

Collect(r) == Run(r) /\ UNCHANGED worker

SourceStep ==
  /\ \E e \in Editions, c \in Sums : SiteChanges(e, c)
  /\ UNCHANGED worker

IndexStep == X!Worker /\ UNCHANGED scraper

PipelineNext == (\E r \in Runs : Collect(r)) \/ SourceStep \/ IndexStep

PipelineSpec == PipelineInit /\ [][PipelineNext]_PipelineVars

-----------------------------------------------------------------------------
\* The edition with this checksum can be searched and was announced.
Indexed(c) == gazettes[c] # Absent /\ c \in told

\* What the scraper will skip for good is not lost on the way: the marker of a
\* PDF means that its event is still to be delivered, that an operator finds it
\* in the dead letters, or that the edition is indexed and announced.
MarkedIsInHand ==
  \A p \in Paths : marker[p] # Absent =>
    \/ queue[<<p, marker[p]>>].state \in {"queued", "dead"}
    \/ Indexed(marker[p])

\* The acts stored under a checksum come from the PDF with that checksum.
ActsMatchChecksum ==
  \A c \in Sums : acts[c] # Absent => acts[c] = c

\* An edition that more scheduled runs will still ask for than calls may still fail
\* ends up indexed, in some revision of its PDF, or in the dead letters.
EveryEditionSettles ==
  \A e \in Editions :
    (site[e] # Absent /\ MaxFaults - faults < Lookback - listings[e]) ~>
      \E c \in Sums : \/ gazettes[c] = PathOf[e] /\ c \in told
                      \/ queue[<<PathOf[e], c>>].state = "dead"

-----------------------------------------------------------------------------
(***************************************************************************)
(* The values TLC gives the constants.                                     *)
(***************************************************************************)
CONSTANTS e1, p1, c1, c2, r1, r2, w1, w2

MCPathOf == [e \in Editions |-> p1]

MCSymmetry == Permutations(Workers) \union Permutations(Runs)
=============================================================================
