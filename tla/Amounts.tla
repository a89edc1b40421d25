-------------------------------- MODULE Amounts --------------------------------
\* An amount on its way from what a user types to what an exchange is told: the SDK makes
\* an integer of the smallest unit of it, with the decimals it has for the token, and the
\* API a decimal number again, with those of its own table.
EXTENDS Integers, Sequences, SequencesExt

CONSTANTS
    Whole, Fractions,  \* numbers a user types: before the point, and digits after it
    Assets             \* what is withdrawn

VARIABLES
    asset,
    typed,     \* [negative, whole, fraction]
    units,     \* what parseTokenAmount made of it; empty before that, and if it threw
    shown,     \* formatTokenAmount of the units, once called
    sent       \* the amount in the order to the exchange, once there is one

amountVars == <<asset, typed, units, shown, sent>>

Text(negative, whole, fraction) == [negative |-> negative, whole |-> whole, fraction |-> fraction]
Texts == {Text(n, w, f) : n \in BOOLEAN, w \in Whole, f \in Fractions}

\* getDefaultDecimals, and what GET /token/:contractId/metadata answers for any contract.
SdkDecimals(a) == IF a = "XLM" THEN 7 ELSE 6

\* ASSET_DECIMALS: an asset that is not in it is passed on in its smallest unit.
Listed == {"XLM", "USDC", "BTC", "ETH"}
ApiDecimals(a) ==
    CASE a = "BTC" -> 8
      [] a = "ETH" -> 18
      [] OTHER -> IF a \in Listed THEN 7 ELSE 0

-------------------------------------------------------------------------------
\* Times a power of ten, divided by one, and what is left: a power above 10 ^ 9, which no
\* integer of TLC holds, is taken as two factors.
Scaled(n, k) == IF k > 9 THEN n * 10 ^ 9 * 10 ^ (k - 9) ELSE n * 10 ^ k
Above(n, k) == IF k > 9 THEN (n \div 10 ^ 9) \div 10 ^ (k - 9) ELSE n \div 10 ^ k
Below(n, k) ==
    IF k > 9 THEN ((n \div 10 ^ 9) % 10 ^ (k - 9)) * 10 ^ 9 + (n % 10 ^ 9) ELSE n % 10 ^ k

Number(digits) == FoldLeft(LAMBDA n, d : 10 * n + d, 0, digits)
Digits(n, length) == [i \in 1..length |-> Above(n, length - i) % 10]
Magnitude(n) == IF n < 0 THEN -n ELSE n
Signed(negative, n) == IF negative THEN -n ELSE n

\* replace(/0+$/, '')
Trimmed(digits) ==
    LET kept == {i \in DOMAIN digits : digits[i] # 0}
    IN  SubSeq(digits, 1, IF kept = {} THEN 0 ELSE CHOOSE i \in kept : \A j \in kept : j <= i)

Decimal(n, decimals) ==
    Text(n < 0, Above(Magnitude(n), decimals), Digits(Below(Magnitude(n), decimals), decimals))

FormatTokenAmount(n, decimals) == Decimal(n, decimals)

\* Faulty variant of ParseTokenAmount: digits that are too many are dropped.
ParseTruncated(text, decimals) ==
    LET fraction == [i \in 1..decimals \cap DOMAIN text.fraction |-> text.fraction[i]]
    IN  {Signed(text.negative,
                Scaled(text.whole, decimals) + Scaled(Number(fraction), decimals - Len(fraction)))}

\* The integer of a text, if it has one: more decimal places than the token has are
\* refused. -0 is 0.
ParseTokenAmount(text, decimals) ==
    {Signed(text.negative,
            Scaled(text.whole, decimals)
                + Scaled(Number(text.fraction), decimals - Len(text.fraction))) :
        fits \in {TRUE} \cap {Len(text.fraction) <= decimals}}

\* toWholeUnits, of an amount the schema of POST /cex/route lets in.
ToWholeUnits(n, a) ==
    LET text == Decimal(n, ApiDecimals(a))
    IN  [text EXCEPT !.fraction = Trimmed(@)]

-------------------------------------------------------------------------------
Init ==
    /\ asset \in Assets /\ typed \in Texts
    /\ units = {} /\ shown = {} /\ sent = {}

Parse ==
    /\ units = {}
    /\ units' = ParseTokenAmount(typed, SdkDecimals(asset))
    /\ UNCHANGED <<asset, typed, shown, sent>>

Show ==
    /\ \E n \in units : shown' = {FormatTokenAmount(n, SdkDecimals(asset))}
    /\ UNCHANGED <<asset, typed, units, sent>>

Withdraw ==
    /\ \E n \in units : n >= 0 /\ sent' = {ToWholeUnits(n, asset)}
    /\ UNCHANGED <<asset, typed, units, shown>>

AmountNext == Parse \/ Show \/ Withdraw

-------------------------------------------------------------------------------
\* An amount is shown as it was typed, or not accepted at all: no digit is dropped.
ShownAsTyped ==
    \A text \in shown :
        /\ Trimmed(text.fraction) = Trimmed(typed.fraction) /\ text.whole = typed.whole
        /\ text.negative = (typed.negative /\ units # {0})

\* The exchange is told what was typed where the SDK and the API have the same decimals
\* for the asset, XLM alone; elsewhere the order is off by exactly the power of ten between
\* them, and nothing but that: ten and a hundred times too small for USDC and BTC, 10 ^ 12
\* times for ETH, and too large for an asset the API does not list.
ToldAsTyped ==
    \A text \in sent :
        /\ SdkDecimals(asset) = ApiDecimals(asset) =>
              text = Text(FALSE, typed.whole, Trimmed(typed.fraction))
        /\ ParseTokenAmount(text, ApiDecimals(asset)) = units

AmountsSound == ShownAsTyped /\ ToldAsTyped
===============================================================================
