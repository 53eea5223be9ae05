---------------------------- MODULE MCTransfers ----------------------------
(* Transfers for TLC: the native asset, one of a bridged chain and one of a sibling. *)
EXTENDS Transfers, TLC

Junction(id) == <<"GeneralKey", id>>

\* The location form of the assets of bridged chains that the tests of the pallet use.
Token == [parents |-> 1, interior |->
             <<<<"Parachain", ParaId>>, CbKey, <<"GeneralIndex", "c1">>, Junction("token")>>]

KAR == [parents |-> 1, interior |-> <<<<"Parachain", SiblingId>>, Junction("KAR")>>]

MCAsset == {PHA, Token, KAR}

MCFeeAssets == {PHA}

MCSymmetry == Permutations(Relayer)

MCPrice == [asset \in {Token, KAR} |-> 1]

MCId == [asset \in MCAsset |-> IF asset = PHA THEN 0 ELSE IF asset = Token THEN 1 ELSE 2]

\* Either the native asset moves, or one of the others, with enough of PHA for one fee.
MCSetup ==
    {[amount |-> [asset \in MCAsset |-> IF asset = PHA THEN 4 ELSE 0], free |-> {0}],
     [amount |-> [asset \in MCAsset |-> CASE asset = Token -> 3 [] asset = PHA -> 1 [] OTHER -> 0],
      free |-> {1}],
     [amount |-> [asset \in MCAsset |-> CASE asset = KAR -> 3 [] asset = PHA -> 1 [] OTHER -> 0],
      free |-> {2}]}

MCFeeOption == {<<1, 500>>}
=============================================================================
