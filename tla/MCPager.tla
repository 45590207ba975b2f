------------------------------- MODULE MCPager -------------------------------
(* Model-checking instances of Pager.  Names are only compared.            *)
EXTENDS Pager

Symmetry == Permutations(Name)

\* Files, with a cache that is too small for their pages, and a database in memory whose
\* cache holds every page.
FileOrMemory ==
  {[inMemory |-> FALSE, pages |-> 2, capacity |-> 1, levels |-> 3],
   [inMemory |-> FALSE, pages |-> 3, capacity |-> 1, levels |-> 2],
   [inMemory |-> TRUE,  pages |-> 1, capacity |-> 3, levels |-> 3]}
SmallMemory  == {[inMemory |-> TRUE, pages |-> 1, capacity |-> 2, levels |-> 1]}
=============================================================================
