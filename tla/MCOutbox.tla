------------------------------ MODULE MCOutbox ------------------------------
\* Model values for Outbox; texts, keys and files are interchangeable.
EXTENDS Outbox, TLC

OutboxSymmetry ==
  Permutations(Keys) \cup Permutations(Texts) \cup Permutations(Versions)
=============================================================================
