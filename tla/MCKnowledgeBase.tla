--------------------------- MODULE MCKnowledgeBase ---------------------------
\* Small instances of KnowledgeBase.
EXTENDS KnowledgeBase, TLC

All == Permutations(Admin) \cup Permutations(Dataset)
===============================================================================
