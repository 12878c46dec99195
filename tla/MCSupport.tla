----------------------------- MODULE MCSupport ------------------------------
(* Constants of the Support run. *)
EXTENDS Support, TLC

CONSTANTS f1, f2, f3, h1, g1, i1, i2, ph1, ph2,
          up1, up2, me1, me2, me3, ro1, ro2, as1, as2, as3, st1, st2, op1, op2, ta1, ta2

\* An administrator, a customer and a user who may become an administrator.
Admin == 1
Customer == 2
Other == 3

CallerOf == [c \in Calls |-> IF c \in {up1, me1, me2, op1, ta1} THEN Customer
                             ELSE IF c \in {up2, me3, op2, ta2} THEN Other ELSE Admin]
OwnerOf == [i \in Items |-> Customer]

Files0 == [f \in FileIds |->
    IF f = f1 THEN [owner |-> Admin, purpose |-> "product_image", status |-> "uploaded"]
    ELSE IF f = f2 THEN [owner |-> Customer, purpose |-> "avatar", status |-> "pending"]
    ELSE NoFile]
Accounts0 == [u \in Users |->
    [live |-> TRUE, admin |-> u = Admin, was_admin |-> u = Admin,
     avatar |-> None, phone |-> None, password |-> None]]

\* Announcing, uploading and using files and phones.
ProfileRounds == {{up1, me1, me3}, {up1, me1, me2}, {up2, me2, me3}}
\* Lists of a product and of a gallery item, f3 never announced.
AssetsRound == {as1, as2, as3}
\* A conversation between role changes.
TalkRound == {op1, op2, ta1, ta2, ro1, ro2}
StepRound == {st1, st2, up1}
SomeRounds == ProfileRounds \cup {AssetsRound, TalkRound, StepRound}
SomeLists == {<<>>, <<f1>>, <<f2, f1>>, <<f3>>}
=============================================================================
