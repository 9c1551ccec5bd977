------------------------------ MODULE MCUploads ------------------------------
\* Small instances of Uploads.
EXTENDS Uploads, TLC

All == Permutations(User) \cup Permutations(File)
===============================================================================
