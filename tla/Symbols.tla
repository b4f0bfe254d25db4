------------------------------ MODULE Symbols ------------------------------
(***************************************************************************)
(* Names of markets (src/src/Helper.cpp).  A name is a sequence of pieces, *)
(* cut so that a suffix the code looks for is a suffix of the sequence.    *)
(***************************************************************************)
EXTENDS Naturals, Sequences, SequencesExt

Dash == "-"
Slash == "/"
Underline == "_"
Letters(p) == IF p \in {"T", "C", "S"} THEN 1 ELSE IF p \in {"FD", "BT"} THEN 2 ELSE 3

\* Where getQuoteAsset and getBaseAsset cut: the first dash, or the first slash.
\* Without either there is no quote: getQuoteAsset throws, which is <<>>.
Cut(s) ==
  LET at(p) == SelectInSeq(s, LAMBDA q : q = p)
  IN  IF at(Dash) # 0 THEN at(Dash) ELSE at(Slash)
GetQuoteAsset(s) == IF Cut(s) = 0 THEN <<>> ELSE <<SubSeq(s, Cut(s) + 1, Len(s))>>
GetBaseAsset(s) == IF Cut(s) = 0 THEN s ELSE SubSeq(s, 1, Cut(s) - 1)

StringAfterCharacter(s, p) ==
  LET at == SelectInSeq(s, LAMBDA q : q = p)
  IN  IF at = 0 THEN <<>> ELSE SubSeq(s, at + 1, Len(s))

DashlessSymbol(s) == SelectSeq(s, LAMBDA p : p # Dash)
UnderlineToDashySymbol(s) == [i \in DOMAIN s |-> IF s[i] = Underline THEN Dash ELSE s[i]]
DashyToUnderline(s) == [i \in DOMAIN s |-> IF s[i] = Dash THEN Underline ELSE s[i]]

\* Mutant: USD is tried before the quotes it is the end of.
QuotesShortFirst ==
  << <<"EUR">>, <<"TRY">>, <<"USD">>, <<"FD", "USD">>, <<"T", "USD">>, <<"UST">>,
     <<"USD", "T">>, <<"USD", "C">>, <<"USD", "S">> >>
\* The quotes dashySymbol tries, in its order (EUT, GBP, JPY and MIM are like
\* EUR and TRY, USDP and USDU like USDC; they are left out).
Quotes ==
  << <<"EUR">>, <<"TRY">>, <<"FD", "USD">>, <<"T", "USD">>, <<"UST">>,
     <<"USD", "T">>, <<"USD", "C">>, <<"USD", "S">>, <<"USD">> >>

\* The first three letters, if there are more.
ThreeAndRest(s) ==
  LET letters[i \in 0..Len(s)] == IF i = 0 THEN 0 ELSE letters[i - 1] + Letters(s[i])
      k == CHOOSE i \in 1..Len(s) : letters[i] >= 3 /\ letters[i - 1] < 3
  IN  IF letters[Len(s)] <= 3 THEN s
      ELSE SubSeq(s, 1, k) \o <<Dash>> \o SubSeq(s, k + 1, Len(s))

\* The considered symbols come first, then the known quotes (which never leave
\* anything for the special case of SUSDT: USDT is tried before it).
DashySymbol(s, considered) ==
  LET known == SelectInSeq(considered, LAMBDA c : DashlessSymbol(c) = s)
      quote == SelectInSeq(Quotes, LAMBDA q : IsSuffix(q, s))
  IN  IF Contains(s, Dash) THEN s
      ELSE IF known # 0 THEN considered[known]
      ELSE IF quote # 0 THEN SubSeq(s, 1, Len(s) - Len(Quotes[quote]))
                               \o <<Dash>> \o Quotes[quote]
      ELSE ThreeAndRest(s)
=============================================================================
