\* Violated: a secret saved after the write of an upgrade threw, an exit or a
\* change of the encryption under a restoration, a roll back that throws.
SPECIFICATION KSafety
CONSTANTS
  Secrets = {1, 2}
  MaxKeys = 3
  MaxSnaps = 1
  Failing = {"enable", "upgrade", "begin", "rewrite", "complete", "end", "clear", "restore", "rollback"}
INVARIANT SecretsReadable
