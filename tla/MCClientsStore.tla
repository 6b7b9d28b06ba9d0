--------------------------- MODULE MCClientsStore ---------------------------
(* Two threads, of one application or of two.                              *)
EXTENDS ClientsStore, TLC

\* No action or property names an application, a thread or a name.       
Symmetry ==
  Permutations(App) \cup Permutations(Thread) \cup Permutations(Name)
=============================================================================
