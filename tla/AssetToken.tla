----------------------------- MODULE AssetToken -----------------------------
(***************************************************************************)
(* The signed query that gives a player access to the game's assets: the   *)
(* handler AssetsToken (server/game_handler.go), the signer New builds     *)
(* (server/server.go), and what it signs (pkg/cfsign/cfsign.go).  The      *)
(* signature is a function of the policy, so that the policy stands for    *)
(* the token.  Time is in parts of a second, as many as a clock likes.     *)
(***************************************************************************)
EXTENDS Integers

\* The operator's configuration, which the signer may lack.
Signer(keyPairID, domain) == [configured |-> keyPairID # "", domain |-> domain]

\* now.Add(ttl).Unix() leaves out the part of a second.
Target(now, ttl, second) == (now + ttl) \div second

\* A bucket shorter than a second counts as one.
BucketSeconds(bucket, second) ==
    IF bucket \div second <= 0 THEN 1 ELSE bucket \div second

RoundUp(target, b) == ((target + b - 1) \div b) * b

\* signPrefixAt, for the prefix "" that AssetsToken asks for.
SignPrefixAt(signer, now, ttl, bucket, second) ==
    [resource |-> <<signer.domain, "*">>,
     expires  |-> RoundUp(Target(now, ttl, second), BucketSeconds(bucket, second))]

\* The bucket of SignPrefix is an hour.
SignPrefix(signer, now, ttl, second) ==
    SignPrefixAt(signer, now, ttl, 3600 * second, second)

AssetsToken(signer, now, ttl, second) ==
    IF signer.configured
    THEN [ok |-> TRUE, token |-> SignPrefix(signer, now, ttl, second)]
    ELSE [ok |-> FALSE]
=============================================================================
