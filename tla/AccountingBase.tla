--------------------------- MODULE AccountingBase ---------------------------
(***************************************************************************)
(* What the books (Ledger) and the warehouses (Inventory) share.           *)
(***************************************************************************)
EXTENDS Integers, Sequences, FiniteSets

CONSTANTS
  Desks,    \* requests that can be in progress at once
  Orders,   \* orders that transactions and movements can belong to
  NoOrder   \* "of no order"

ASSUME AccountingAssumption == NoOrder \notin Orders

\* TypeORM's save of an entity: it writes the columns where the entity differs
\* from the row that save finds; the others keep what is stored when the
\* write is made.
Merged(found, entity, stored) ==
  [f \in DOMAIN stored |-> IF entity[f] # found[f] THEN entity[f] ELSE stored[f]]

\* The sum of the amounts f over the rows S, counted unit by unit.
SumOver(f, S) == Cardinality(UNION { {i} \X (1 .. f[i]) : i \in S })

=============================================================================
