------------------------------ MODULE Signature ------------------------------
(***************************************************************************)
(* The signature hash and input-signature verification of transactions     *)
(* (common/src/chain/transaction/signature/mod.rs), as pure operators.     *)
(*                                                                         *)
(* signature_hash streams the sighash type, the header fields the          *)
(* transactable has (a block reward has none), the inputs part and the     *)
(* outputs part the type selects, and the outputs every input spends,      *)
(* into a hash.  The hash is taken as injective (spec §6: cryptography is  *)
(* opaque), so a sighash is the tuple of what was streamed.  A signature   *)
(* is the destination key's over one sighash.  Indices are 1-based; the    *)
(* code's are 0-based.                                                      *)
(***************************************************************************)
EXTENDS Integers, Sequences, FiniteSets

CONSTANTS
    SigOutpoints,   \* outpoints a transaction may spend
    SigOutputs,     \* TxOutput values
    UtxoOf,         \* UtxoOf[o]: the output o refers to in the UTXO view
    Headers,        \* a transaction's version byte, flags and lock time
    NoHeader,       \* a block reward's: version, flags and lock time None
    Keys,           \* the keys (Address, PublicKey) of destinations
    AnyoneCanSpend, \* Destination::AnyoneCanSpend
    NoSignature,    \* InputWitness::NoSignature
    MaxInputs       \* bound: inputs and outputs of a transaction

\* The transactable whose signatures are checked, as a set: {} before any,
\* then {t}.  An input, stepped through SigTxs like the targets of
\* ConsensusRules.
VARIABLE signed

\* SigHashType: an inputs mode and an outputs mode.
SigHashTypes == {"CommitWhoPays", "AnyoneCanPay"} \X {"All", "None", "Single"}

\* Sequences of distinct elements of S, of length lo..hi.
DistinctSeqs(S, lo, hi) ==
    UNION {{s \in [1..n -> S] : \A j, k \in 1..n : j # k => s[j] # s[k]} : n \in lo..hi}

\* The transactables of the universe checked: a header, inputs, outputs.
SigTxs ==
    [header : Headers \cup {NoHeader},
     inputs : DistinctSeqs(SigOutpoints, 1, MaxInputs),
     outputs : UNION {[1..n -> SigOutputs] : n \in 0..MaxInputs}]

\* verify_signatures of the verifier: inputs_utxos, the output each input
\* spends, read from the UTXO view.
InputsUtxos(tx) == [j \in 1..Len(tx.inputs) |-> UtxoOf[tx.inputs[j]]]

\* SignatureHashableElement for &[TxInput]: the number of inputs and every
\* outpoint (CommitWhoPays), or the target input's outpoint (AnyoneCanPay).
InputsPart(mode, ins, i) ==
    IF mode[1] = "CommitWhoPays" THEN <<Len(ins), ins>> ELSE <<ins[i]>>

\* Mutant: mode Single hashes the first output, whatever the input.
OutputsPartFirst(mode, outs, i) ==
    CASE mode[2] = "All" -> {<<outs>>}
      [] mode[2] = "None" -> {<<>>}
      [] Len(outs) >= 1 -> {<<outs[1]>>}
      [] OTHER -> {}

\* SignatureHashableElement for &[TxOutput], as the set of its result ({}
\* for InvalidInputIndex): all outputs, none, or the output at the input's
\* index.
OutputsPart(mode, outs, i) ==
    CASE mode[2] = "All" -> {<<outs>>}
      [] mode[2] = "None" -> {<<>>}
      [] i <= Len(outs) -> {<<outs[i]>>}
      [] OTHER -> {}

\* stream_signature_hash and signature_hash, {} for an error: the target
\* input must exist (InvalidInputIndex) and the UTXOs match the inputs in
\* number (InvalidUtxoCountVsInputs).  The trailing u32::MAX is the same in
\* every sighash and is left out.
SignatureHash(mode, tx, utxos, i) ==
    IF i > Len(tx.inputs) \/ Len(utxos) # Len(tx.inputs) THEN {}
    ELSE {<<mode, tx.header, InputsPart(mode, tx.inputs, i), op, utxos>> :
              op \in OutputsPart(mode, tx.outputs, i)}

\* StandardInputSignature::verify_signature: the witness is the
\* destination's signature over the sighash; AnyoneCanSpend has no key
\* (AttemptedToVerifyStandardSignatureForAnyoneCanSpend).
VerifyStandard(dest, w, h) ==
    dest # AnyoneCanSpend /\ w.key = dest /\ w.msg = h

\* verify_standard_input_signature: the sighash under the witness's own
\* sighash type, then the signature check.
VerifyStandardInputSignature(dest, w, tx, utxos, i) ==
    \E h \in SignatureHash(w.mode, tx, utxos, i) : VerifyStandard(dest, w, h)

\* verify_signature: the witness at the input's index must exist
\* (InvalidSignatureIndex); NoSignature passes only for AnyoneCanSpend
\* (SignatureNotFound), a standard witness is verified.
VerifySignature(dest, tx, sigs, utxos, i) ==
    /\ i <= Len(sigs)
    /\ IF sigs[i] = NoSignature THEN dest = AnyoneCanSpend
       ELSE VerifyStandardInputSignature(dest, sigs[i], tx, utxos, i)

SigInit == signed = {}

\* The next transactable to sign.
SigNext == \E t \in SigTxs : signed' = {t}

-----------------------------------------------------------------------------
(* Properties.                                                              *)

\* What a signature under a sighash type promises: the transactable t2 is
\* the one signed, t, in its header, in the outputs every input spends
\* (the code's comment: they are hashed so inputs' amounts are verified),
\* in all inputs (CommitWhoPays) or the signer's own (AnyoneCanPay), and in
\* all outputs (All), none (None) or the output at the signer's index
\* (Single).
Authorises(m, t, t2, i) ==
    /\ i <= Len(t2.inputs)
    /\ t2.header = t.header
    /\ InputsUtxos(t2) = InputsUtxos(t)
    /\ IF m[1] = "CommitWhoPays" THEN t2.inputs = t.inputs
                                 ELSE t2.inputs[i] = t.inputs[i]
    /\ CASE m[2] = "All" -> t2.outputs = t.outputs
         [] m[2] = "None" -> TRUE
         [] OTHER -> i <= Len(t2.outputs) /\ t2.outputs[i] = t.outputs[i]

\* A standard signature made by input i's key over transactable t under
\* sighash type m is accepted by verify_signature on a transactable t2
\* exactly when m authorises t2, and not under another key, nor once its
\* witness names another sighash type; NoSignature is accepted only for an
\* AnyoneCanSpend output.
SignatureCommitsPerSigHashType ==
    \A t \in signed, m \in SigHashTypes, i \in 1..MaxInputs, k \in Keys :
      \A h \in SignatureHash(m, t, InputsUtxos(t), i) :
        LET w == [mode |-> m, key |-> k, msg |-> h]
        IN  /\ \A t2 \in SigTxs :
                 VerifySignature(k, t2, [j \in 1..Len(t2.inputs) |-> w],
                                 InputsUtxos(t2), i)
                   <=> Authorises(m, t, t2, i)
            /\ \A m2 \in SigHashTypes, d \in Keys \cup {AnyoneCanSpend} :
                 VerifySignature(d, t, [j \in 1..Len(t.inputs) |-> [w EXCEPT !.mode = m2]],
                                 InputsUtxos(t), i)
                   <=> (d = k /\ m2 = m)
            /\ VerifySignature(k, t, [j \in 1..Len(t.inputs) |-> NoSignature],
                               InputsUtxos(t), i) = FALSE

=============================================================================
