------------------------- MODULE CatalogueHistory -------------------------
(***************************************************************************)
(* Catalogue with the history that the promises to a reader are about:     *)
(* what has been on its list all the time, what came and went meanwhile,   *)
(* and how often it was shown a product again.  The history is written     *)
(* and never read.                                                         *)
(***************************************************************************)
EXTENDS Catalogue

VARIABLES
  steady,      \* what has been on a reader's list since it began
  came, left,  \* how often a product came on its list, or left it
  again        \* how often it was shown a product it had been shown before

history == <<steady, came, left, again>>
hvars   == <<vars, history>>

List(r)  == {shelf[i] : i \in Listed(r)}
Shown(r) == {p \in Products : seen[r][p] > 0}

HInit ==
  /\ Init
  /\ steady = [r \in Readers |-> {}]
  /\ came = [r \in Readers |-> 0]
  /\ left = [r \in Readers |-> 0]
  /\ again = [r \in Readers |-> 0]

\* How much a set has grown, for those who read meanwhile.
Growth(r, from, to) == IF turn[r] = "reading" THEN Cardinality(to \ from) ELSE 0

\* A reader that begins, and one whose list changes as it reads.
Watch ==
  /\ steady' = [r \in Readers |-> CASE turn[r] = "none" -> List(r)'
                                    [] turn[r] = "reading" -> steady[r] \cap List(r)'
                                    [] OTHER -> steady[r]]
  /\ came' = [r \in Readers |-> came[r] + Growth(r, List(r), List(r)')]
  /\ left' = [r \in Readers |-> left[r] + Growth(r, List(r)', List(r))]
  /\ again' = [r \in Readers |->
       again[r] + Cardinality({p \in Shown(r) : seen'[r][p] > seen[r][p]})]

HNext == Next /\ Watch

HSpec == HInit /\ [][HNext]_hvars

-----------------------------------------------------------------------------
\* Properties.

\* A reader that has come to the end misses no more of the products that were
\* listed all the time than have left the list in front of it: every product
\* hidden or sold out moves one over the edge of a page (products.go:46).
MissedOnlyByLeavers ==
  \A r \in Readers :
    turn[r] = "done" => Cardinality(steady[r] \ Shown(r)) <= left[r]

\* It is shown no more products again than have come on the list since.
RepeatedOnlyByComers ==
  \A r \in Readers : again[r] <= came[r]
=============================================================================
