---------------------------- MODULE KeyDerivation ----------------------------
(***************************************************************************)
(* derive.go: all-hardened BIP-32 paths from a master seed.  A seed is what *)
(* its bytes are (val) and how many they are (len).  A key is named by the  *)
(* seed and the path it was derived along: that BIP-32 gives different keys *)
(* for different ones is what is assumed of it.  An operation returns the   *)
(* set of its results, {} when it fails.                                    *)
(*                                                                         *)
(* Hardened stands for 2^31; indices are 32-bit words below 2 * Hardened.   *)
(***************************************************************************)
EXTENDS Integers, Sequences

CONSTANTS Hardened, bip44Purpose, DefaultCoinType, SeedMin, SeedMax

ASSUME DerivationAssumption ==
    /\ Hardened \in Nat /\ bip44Purpose \in 0..(Hardened - 1)
    /\ DefaultCoinType \in 1..(Hardened - 1)
    /\ SeedMin \in Nat \ {0} /\ SeedMax \in Nat

Uint32 == 0..(2 * Hardened - 1)

SeedLengthOK(seed) == seed.len \in SeedMin..SeedMax

deriveHardened(seed, indices) ==
    IF SeedLengthOK(seed) /\ indices # <<>> /\ \A i \in 1..Len(indices) : indices[i] < Hardened
    THEN {[seed |-> seed, path |-> indices]}
    ELSE {}

Derive(seed, coinType, account) ==
    IF account \in 1..(Hardened - 1)
    THEN deriveHardened(seed, <<bip44Purpose, coinType, account>>)
    ELSE {}

\* A plausible slip: owner and agent are folded into one index.
DeriveAgentFolded(seed, coinType, owner, agent) ==
    deriveHardened(seed, <<bip44Purpose, coinType, owner + agent>>)

DeriveAgent(seed, coinType, owner, agent) ==
    deriveHardened(seed, <<bip44Purpose, coinType, owner, agent>>)

DerivePath(seed, hardenedIndices) == deriveHardened(seed, hardenedIndices)
=============================================================================
