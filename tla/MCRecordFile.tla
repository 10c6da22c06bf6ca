---------------------------- MODULE MCRecordFile ----------------------------
EXTENDS RecordFile, TLC

\* One slot number more than a page has: what next_bit returns for a full page.
Rids == PageNo \X (0 .. num_records_per_page)
TxnSymmetry == Permutations(Txn)
=============================================================================
