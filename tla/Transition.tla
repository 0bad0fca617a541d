------------------------------ MODULE Transition ------------------------------
(***************************************************************************)
(* The state transition that Propagator builds for one interval of IMU     *)
(* data: where each variable stands in it, and from which factors of the   *)
(* sensor model its blocks are made,                                       *)
(*      a = R_a D_a (a_m - b_a)      w = R_w D_w (w_m - b_g - T_g a).      *)
(* A term is a sign and the chain of these factors; H_Dw, H_Da, H_Tg and   *)
(* the cross products stand for a factor's derivative.  What a block       *)
(* multiplies the terms with (dR Jr dt, Xi_1 .. Xi_4) is left out.         *)
(***************************************************************************)
EXTENDS StateLayout

ImuParts   == {"th", "p", "v", "bg", "ba"}
CalibParts == {"Dw", "Da", "Tg", "th_wtoI", "th_atoI"}
Parts      == ImuParts \cup CalibParts
Moving     == {"th", "p", "v"}
Noises     == {"n_w", "n_a"}

(* Where a part of the IMU lies behind the IMU's id (set_local_id). *)
ImuOffset == [th |-> 0, p |-> 3, v |-> 6, bg |-> 9, ba |-> 12]

(* The variable of the state that a part of the transition is about. *)
VariableOf(part) ==
  CASE part = "Dw" -> DW
    [] part = "Da" -> DA
    [] part = "Tg" -> TG
    [] part = "th_wtoI" -> GYROtoIMU
    [] part = "th_atoI" -> ACCtoIMU
    [] part \in ImuParts -> IMU

PartSize(part) == IF part \in ImuParts THEN 3 ELSE Size(VariableOf(part))

LocalId_RotationFirst ==
  LET calib == options.do_calib_imu_intrinsics
      sens  == calib /\ options.do_calib_imu_g_sensitivity
  IN [th |-> 0, p |-> 3, v |-> 6, bg |-> 9, ba |-> 12,
      Dw      |-> IF calib THEN 15 ELSE -1,
      Da      |-> IF calib THEN 21 ELSE -1,
      Tg      |-> IF sens  THEN 30 ELSE -1,
      th_wtoI |-> IF calib /\ options.kalibr  THEN 27 ELSE -1,
      th_atoI |-> IF calib /\ ~options.kalibr THEN 27 ELSE -1]

(* th_id, ..., th_wtoI_id of compute_F_and_G, -1 if it is not estimated.   *)
LocalId ==
  LET calib == options.do_calib_imu_intrinsics
      sens  == calib /\ options.do_calib_imu_g_sensitivity
      last  == IF sens THEN 27 + Size(TG) ELSE 27
  IN [th |-> 0, p |-> 3, v |-> 6, bg |-> 9, ba |-> 12,
      Dw      |-> IF calib THEN 15 ELSE -1,
      Da      |-> IF calib THEN 21 ELSE -1,
      Tg      |-> IF sens  THEN 27 ELSE -1,
      th_wtoI |-> IF calib /\ options.kalibr  THEN last ELSE -1,
      th_atoI |-> IF calib /\ ~options.kalibr THEN last ELSE -1]

Present == {part \in Parts : LocalId[part] # -1}

(* State::imu_intrinsic_size, by which F and Qd are allocated. *)
imu_intrinsic_size ==
  IF ~options.do_calib_imu_intrinsics THEN 0
  ELSE IF options.do_calib_imu_g_sensitivity THEN 15 + 9 ELSE 15

-----------------------------------------------------------------------------
(* The terms of the rows of orientation, position and velocity.  The two   *)
(* noises of G enter like the biases.                                      *)

ByGyro(sign, chain) == {<<sign, <<"R_w", "D_w">> \o chain>>}
Direct(row, sign, chain) == IF row = "th" THEN {} ELSE {<<sign, chain>>}
Plus(row)  == IF row = "th" THEN "+" ELSE "-"
Minus(row) == IF row = "th" THEN "-" ELSE "+"

AnalyticTerms_DaLikeBa(row, col) ==
  CASE col \in {"bg", "n_w"} -> ByGyro(Minus(row), <<>>)
    [] col \in {"ba", "n_a", "Da"} -> ByGyro(Plus(row), <<"T_g", "R_a", "D_a">>) \cup Direct(row, "-", <<"R_a", "D_a">>)
    [] col = "Dw" -> {<<Plus(row), <<"R_w", "H_Dw">>>>}
    [] col = "Tg" -> ByGyro(Minus(row), <<"H_Tg">>)
    [] col = "th_atoI" -> ByGyro(Minus(row), <<"T_g", "a x">>) \cup Direct(row, "+", <<"a x">>)
    [] col = "th_wtoI" -> {<<Plus(row), <<"w x">>>>}

AnalyticTerms(row, col) ==
  CASE col \in {"bg", "n_w"} -> ByGyro(Minus(row), <<>>)
    [] col \in {"ba", "n_a"} -> ByGyro(Plus(row), <<"T_g", "R_a", "D_a">>) \cup Direct(row, "-", <<"R_a", "D_a">>)
    [] col = "Dw" -> {<<Plus(row), <<"R_w", "H_Dw">>>>}
    [] col = "Da" -> ByGyro(Minus(row), <<"T_g", "R_a", "H_Da">>) \cup Direct(row, "+", <<"R_a", "H_Da">>)
    [] col = "Tg" -> ByGyro(Minus(row), <<"H_Tg">>)
    [] col = "th_atoI" -> ByGyro(Minus(row), <<"T_g", "a x">>) \cup Direct(row, "+", <<"a x">>)
    [] col = "th_wtoI" -> {<<Plus(row), <<"w x">>>>}

(* Only the orientation depends on w here; the block of D_a has no D_w.    *)
DiscreteTerms(row, col) ==
  IF row = "th"
  THEN CASE col \in {"bg", "n_w"} -> ByGyro("-", <<>>)
         [] col \in {"ba", "n_a"} -> ByGyro("+", <<"T_g", "R_a", "D_a">>)
         [] col = "Dw" -> {<<"+", <<"R_w", "H_Dw">>>>}
         [] col = "Da" -> {<<"-", <<"R_w", "T_g", "R_a", "H_Da">>>>}
         [] col = "Tg" -> ByGyro("-", <<"H_Tg">>)
         [] col = "th_atoI" -> ByGyro("-", <<"T_g", "a x">>)
         [] col = "th_wtoI" -> {<<"+", <<"w x">>>>}
  ELSE CASE col \in {"ba", "n_a"} -> {<<"-", <<"R_a", "D_a">>>>}
         [] col = "Da" -> {<<"+", <<"R_a", "H_Da">>>>}
         [] col = "th_atoI" -> {<<"+", <<"a x">>>>}
         [] col \in {"bg", "n_w", "Dw", "Tg", "th_wtoI"} -> {}

(* The blocks of F that are set: the kinematics of the first three rows,   *)
(* the terms above and an identity for every part.                         *)
Kinematics == {<<"p", "th">>, <<"v", "th">>, <<"p", "v">>}
FBlocks(terms) ==
  {<<part, part>> : part \in Present} \cup Kinematics
    \cup {b \in Moving \X (Present \ Moving) : terms[b] # {}}
Analytic == [b \in Moving \X (CalibParts \cup {"bg", "ba"} \cup Noises) |-> AnalyticTerms(b[1], b[2])]
Discrete == [b \in Moving \X (CalibParts \cup {"bg", "ba"} \cup Noises) |-> DiscreteTerms(b[1], b[2])]

-----------------------------------------------------------------------------
(* The six numbers of D_w and D_a, column by column. *)

(* The entry <<row, column>> of the matrix that State::Dm puts vec(k) in.  *)
Dm(kalibr) ==
  IF kalibr THEN <<<<1,1>>, <<2,1>>, <<3,1>>, <<2,2>>, <<3,2>>, <<3,3>>>>
  ELSE <<<<1,1>>, <<1,2>>, <<2,2>>, <<1,3>>, <<2,3>>, <<3,3>>>>

Column(c, rws) == [i \in 1 .. Len(rws) |-> <<rws[i], c>>]

(* The column w_c e_r of H_Dw (H_Da): derivative by the entry <<r, c>>.    *)
compute_H_D(kalibr) ==
  IF kalibr THEN Column(1, <<1, 2, 3>>) \o Column(2, <<2, 3>>) \o Column(3, <<3>>)
  ELSE Column(1, <<1>>) \o Column(2, <<1, 2>>) \o Column(3, <<1, 2, 3>>)

(* The entries of the configured matrix that become vec_dw (vec_da).       *)
vec_d(kalibr) ==
  IF kalibr THEN Column(1, <<1, 2, 3>>) \o Column(2, <<2, 3>>) \o <<<<3, 3>>>>
  ELSE <<<<1, 1>>>> \o Column(2, <<1, 2>>) \o Column(3, <<1, 2, 3>>)

-----------------------------------------------------------------------------
(* Reference: the derivatives of the sensor model. *)

Negated(sign) == IF sign = "+" THEN "-" ELSE "+"

AccTerms(col) ==
  CASE col \in {"ba", "n_a"} -> {<<"-", <<"R_a", "D_a">>>>}
    [] col = "Da" -> {<<"+", <<"R_a", "H_Da">>>>}
    [] col = "th_atoI" -> {<<"+", <<"a x">>>>}
    [] OTHER -> {}

GyroTerms(col) ==
  {<<Negated(t[1]), <<"R_w", "D_w", "T_g">> \o t[2]>> : t \in AccTerms(col)}
    \cup CASE col \in {"bg", "n_w"} -> {<<"-", <<"R_w", "D_w">>>>}
           [] col = "Dw" -> {<<"+", <<"R_w", "H_Dw">>>>}
           [] col = "Tg" -> {<<"-", <<"R_w", "D_w", "H_Tg">>>>}
           [] col = "th_wtoI" -> {<<"+", <<"w x">>>>}
           [] OTHER -> {}

(* Orientation turns with w; position and velocity follow a, and between   *)
(* the readings also turn back with w.                                     *)
Expected(row, col, turning) ==
  IF row = "th" THEN GyroTerms(col)
  ELSE AccTerms(col) \cup (IF turning THEN {<<Negated(t[1]), t[2]>> : t \in GyroTerms(col)} ELSE {})

-----------------------------------------------------------------------------
(* Properties *)

(* The summed transition is applied to the covariance of the variables of  *)
(* Phi_order as one block (EKFPropagation): every part must stand in it    *)
(* where the state has it, the parts fill it, a parameter that does not    *)
(* move keeps its own row (a missing identity would erase its covariance), *)
(* and every estimated parameter reaches the orientation or the velocity.  *)
TransitionMatchesState ==
  at = AtEnd =>
    /\ \A part \in Present :
         LocalId[part] + id[PhiOrder[1]] =
           IF part \in ImuParts THEN id[IMU] + ImuOffset[part] ELSE id[VariableOf(part)]
    /\ {VariableOf(part) : part \in Present} = {PhiOrder[i] : i \in 1 .. Len(PhiOrder)}
    /\ \A part \in Present : LocalId[part] + PartSize(part) <= 15 + imu_intrinsic_size
    /\ \E part \in Present : LocalId[part] + PartSize(part) = 15 + imu_intrinsic_size
    /\ \A terms \in {Analytic, Discrete} :
         /\ \A part \in Present \ Moving : {b \in FBlocks(terms) : b[1] = part} = {<<part, part>>}
         /\ \A part \in Present \ {"p"} : \E row \in {"th", "v"} : <<row, part>> \in FBlocks(terms)

(* Every block is the derivative of the sensor model, factor by factor and *)
(* with its sign, so that a calibration parameter, a bias and a noise that *)
(* act on one reading stay consistent; the exception is the block of D_a   *)
(* in the discrete orientation row.  The six numbers of a matrix are read  *)
(* from the options, put into the matrix and differentiated in one order.  *)
TransitionFollowsSensors ==
  at = AtEnd =>
    /\ \A b \in DOMAIN Analytic : Analytic[b] = Expected(b[1], b[2], TRUE)
    /\ \A b \in DOMAIN Discrete \ {<<"th", "Da">>} : Discrete[b] = Expected(b[1], b[2], FALSE)
    /\ Dm(options.kalibr) = compute_H_D(options.kalibr)
    /\ Dm(options.kalibr) = vec_d(options.kalibr)
=============================================================================
