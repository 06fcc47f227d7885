------------------------------ MODULE SeedSource ------------------------------
(***************************************************************************)
(* seedsource.go: where the master seed comes from.  A hex text is what     *)
(* surrounds it (pad), its prefix, whether the rest is hex, and the seed    *)
(* that it spells.  Each source returns the set of its results, {} when it  *)
(* fails or is not configured (main treats both alike).                     *)
(***************************************************************************)
EXTENDS KeyDerivation

HexTexts(seeds) == [pad: BOOLEAN, prefix: {"", "0x", "0X"}, hex: BOOLEAN, seed: seeds]

\* The text is blank: no prefix and no digits.
Blank(t) == t.prefix = "" /\ t.hex /\ t.seed.len = 0

\* hex.DecodeString(strings.TrimPrefix(t, "0x"))
DecodeHex(t) == IF ~t.pad /\ t.hex /\ t.prefix # "0X" THEN {t.seed} ELSE {}

validateSeed(seed) == SeedLengthOK(seed)

\* A plausible slip: the source's own bytes are returned.
StaticMasterSeedShared(mem, own, fresh) == [at |-> own, mem |-> mem]

\* StaticMasterSeedSource.MasterSeed: the bytes at "own" of the memory, copied
\* to "fresh" (a caller may overwrite what it gets).
StaticMasterSeed(mem, own, fresh) ==
    [at |-> fresh, mem |-> [mem EXCEPT ![fresh] = mem[own]]]

EnvMasterSeed(raw) ==
    LET t == [raw EXCEPT !.pad = FALSE]
    IN  IF Blank(t) THEN {} ELSE {s \in DecodeHex(t) : validateSeed(s)}

\* TEEMasterSeedSource.MasterSeed, given what the enclave answers: the request
\* or the status fails, the body is no JSON, or it carries a text, which is
\* taken as it is.
TEEMasterSeed(baseURL, serviceToken, response) ==
    IF baseURL = "" \/ serviceToken = "" \/ ~response.ok \/ Blank(response.seedHex) THEN {}
    ELSE {s \in DecodeHex(response.seedHex) : validateSeed(s)}
=============================================================================
