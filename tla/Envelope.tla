------------------------------- MODULE Envelope -------------------------------
\* Signed transaction envelopes as the rules of validateXdr see them, and the one that
\* prepareFundingTransaction gives the wallet to sign.
EXTENDS Integers

MaxLength == 64 * 1024    \* MAX_XDR_BYTE_LENGTH
MinFee    == 100          \* MIN_FEE_STROOPS and MAX_FEE_STROOPS
MaxFee    == 10000000
MaxFuture == 60 * 60      \* MAX_FUTURE_TIME_MS, in seconds
AllowedFunctions == {"fund", "deposit"}   \* of the endpoint "fund"

\* lifetime is what is left until maxTime, and NoBound where the envelope has none.
NoBound == -(2 * MaxFuture)
Common == [length |-> MaxLength, alphabet |-> "base64", structure |-> "transaction",
           feeSource |-> "none", fee |-> MinFee, lifetime |-> MaxFuture, source |-> "account",
           operations |-> 1, operation |-> "invokeHostFunction", host |-> "invokeContract",
           contract |-> "bridge", function |-> "fund"]

-------------------------------------------------------------------------------
\* The rules, in their order. Rule 4 cannot fail: the envelope is parsed for the network
\* that it is compared with.
Fits(e)    == e.length <= MaxLength
Decodes(e) == e.alphabet = "base64"

\* A fee bump is unwrapped: the rules after this one look at the transaction inside.
Parses(e) ==
    \/ e.structure = "transaction"
    \/ e.structure = "fee bump" /\ e.feeSource = "account"

PaysProperly(e) == e.fee >= MinFee /\ e.fee <= MaxFee
InTime(e)       == e.lifetime = NoBound \/ (e.lifetime >= 0 /\ e.lifetime <= MaxFuture)
HasSource(e)    == e.source = "account"

\* One operation, which invokes an allowed function of the bridge's contract.
CallsBridge(e) ==
    /\ e.operations = 1
    /\ e.operation = "invokeHostFunction" /\ e.host = "invokeContract"
    /\ e.contract = "bridge" /\ e.function \in AllowedFunctions

Passes(e) ==
    Fits(e) /\ Decodes(e) /\ Parses(e) /\ PaysProperly(e) /\ InTime(e) /\ HasSource(e)
            /\ CallsBridge(e)

-------------------------------------------------------------------------------
\* What prepareFundingTransaction builds and a simulation priced: fund_c_address of the
\* bridge, valid for 30 seconds.
Prepared(fee) == [Common EXCEPT !.fee = fee, !.lifetime = 30, !.function = "fund_c_address"]

\* Envelopes a client may send: good ones, ones that fail one rule, and prepared ones.
Good ==
    {[Common EXCEPT !.fee = fee, !.lifetime = left, !.function = f] :
        fee \in {MinFee, MaxFee}, left \in {NoBound, 0, MaxFuture}, f \in AllowedFunctions}
FeeBumps == {[e EXCEPT !.structure = "fee bump", !.feeSource = s] :
                e \in Good, s \in {"account", "other"}}
Spoiled(e) ==
    {[e EXCEPT !.length = MaxLength + 1], [e EXCEPT !.alphabet = "other"],
     [e EXCEPT !.structure = "other"], [e EXCEPT !.source = "muxed"],
     [e EXCEPT !.fee = MinFee - 1], [e EXCEPT !.fee = MaxFee + 1],
     [e EXCEPT !.lifetime = -1], [e EXCEPT !.lifetime = MaxFuture + 1],
     [e EXCEPT !.operations = 2], [e EXCEPT !.operation = "payment"],
     [e EXCEPT !.host = "uploadWasm"], [e EXCEPT !.contract = "other"],
     [e EXCEPT !.function = "propose"]}
Envelopes == Good \cup FeeBumps \cup (UNION {Spoiled(e) : e \in Good}) \cup {Prepared(MinFee)}

\* What becomes of an envelope: a fee bump that passes the rules is more than
\* submitTransaction can read.
Class(e) == IF ~Passes(e) THEN "refused"
            ELSE IF e.structure = "fee bump" THEN "unreadable" ELSE "sound"
===============================================================================
