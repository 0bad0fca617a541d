----------------------------- MODULE InitialGraph -----------------------------
(***************************************************************************)
(* The optimisation problem of DynamicInitializer and its factors: which   *)
(* parameter blocks a factor is given and in which order, what it takes    *)
(* them for, which block of residuals depends on what, and where the       *)
(* derivatives are written and copied from.  Values are left out.          *)
(*                                                                         *)
(* A parameter block is <<kind, owner>>: the owner is a camera time, a     *)
(* feature or a camera.  Parameters and rows are counted from 0 as in the  *)
(* code, sequences of parameters from 1.                                   *)
(***************************************************************************)
EXTENDS Integers, Sequences, FiniteSets

StateKinds  == {"ori", "pos", "vel", "bias_g", "bias_a"}
CalibKinds  == {"calib_ori", "calib_pos", "calib_cam"}

(* The size each block is added to the problem with.                       *)
BlockSize(kind) ==
  CASE kind \in {"ori", "calib_ori"} -> 4
    [] kind = "calib_cam" -> 8
    [] OTHER -> 3

(* State_JPLQuatLocal: the columns of the tangent space are the first      *)
(* three of the four a factor writes; the last one is dropped.             *)
TangentSize(kind) == IF kind \in {"ori", "calib_ori"} THEN 3 ELSE BlockSize(kind)

Sum(sizes) == LET upTo[i \in 0 .. Len(sizes)] == IF i = 0 THEN 0 ELSE upTo[i - 1] + sizes[i]
              IN upTo[Len(sizes)]
Before(sizes, i) == Sum(SubSeq(sizes, 1, i - 1))

-----------------------------------------------------------------------------
(* The blocks and factors of the problem *)

StateBlocks(times) == StateKinds \X times
CalibBlocks(cams)  == CalibKinds \X cams
FeatureBlocks(feats) == {"feat"} \X feats

(* The prior on the first state, and those on the calibration of a camera. *)
FirstPrior(t) ==
  [types  |-> <<"quat_yaw", "vec3", "vec3", "vec3">>,
   params |-> <<<<"ori", t>>, <<"pos", t>>, <<"bias_g", t>>, <<"bias_a", t>>>>,
   x_lin  |-> <<0, 4, 7, 10>>, x_rows |-> 13,
   info   |-> <<<<0, 4>>, <<4, 3>>, <<7, 3>>>>, info_rows |-> 10]

ExtrinsicPrior(cam) ==
  [types  |-> <<"quat", "vec3">>,
   params |-> <<<<"calib_ori", cam>>, <<"calib_pos", cam>>>>,
   x_lin  |-> <<0, 4>>, x_rows |-> 7,
   info   |-> <<<<0, 3>>, <<3, 3>>>>, info_rows |-> 6]

IntrinsicPrior(cam) ==
  [types  |-> <<"vec8">>,
   params |-> <<<<"calib_cam", cam>>>>,
   x_lin  |-> <<0>>, x_rows |-> 8,
   info   |-> <<<<0, 4>>, <<4, 4>>>>, info_rows |-> 8]

StateParams(k) == <<<<"ori", k>>, <<"bias_g", k>>, <<"vel", k>>, <<"bias_a", k>>, <<"pos", k>>>>
ImuParams_Poses(k, k1) ==
  <<<<"ori", k>>, <<"pos", k>>, <<"vel", k>>, <<"bias_g", k>>, <<"bias_a", k>>>> \o StateParams(k1)
(* What the factor between two states is given.                            *)
ImuParams(k, k1) == StateParams(k) \o StateParams(k1)

(* What the factor of one image measurement is given.                      *)
ImageParams(t, f, cam) ==
  <<<<"ori", t>>, <<"pos", t>>, <<"feat", f>>,
    <<"calib_ori", cam>>, <<"calib_pos", cam>>, <<"calib_cam", cam>>>>

(* Blocks kept constant unless calibration is optimised, and the rank the  *)
(* covariance is told to be short of.                                      *)
ConstantBlocks(cams, opt_calib) == IF opt_calib THEN {} ELSE CalibBlocks(cams)
NullSpaceRank(cams, opt_calib)  == IF opt_calib THEN 0 ELSE Cardinality(cams) * (6 + 8)

-----------------------------------------------------------------------------
(* Factor_GenericPrior *)

PriorSize(type) ==
  CASE type \in {"quat", "quat_yaw"} -> 4 [] type = "vec1" -> 1 [] type = "vec3" -> 3 [] type = "vec8" -> 8
PriorError(type) ==
  CASE type = "quat" -> 3 [] type \in {"quat_yaw", "vec1"} -> 1 [] type = "vec3" -> 3 [] type = "vec8" -> 8

Sizes(prior)  == [i \in DOMAIN prior.types |-> PriorSize(prior.types[i])]
Errors(prior) == [i \in DOMAIN prior.types |-> PriorError(prior.types[i])]

(* global_it and local_it when Evaluate comes to the i-th variable.        *)
GlobalIt(prior, i) == Before(Sizes(prior), i)
LocalIt(prior, i)  == Before(Errors(prior), i)

-----------------------------------------------------------------------------
(* Factor_ImuCPIv1 *)

ImuSizes == <<4, 3, 3, 3, 3, 4, 3, 3, 3, 3>>

(* parameters[...] of Evaluate *)
ImuReads ==
  [q_1  |-> 0, b_w1 |-> 1, v_1 |-> 2, b_a1 |-> 3, p_1 |-> 4,
   q_2  |-> 5, b_w2 |-> 6, v_2 |-> 7, b_a2 |-> 8, p_2 |-> 9]
TakenFor ==
  [q_1  |-> <<"ori", 1>>, b_w1 |-> <<"bias_g", 1>>, v_1 |-> <<"vel", 1>>, b_a1 |-> <<"bias_a", 1>>, p_1 |-> <<"pos", 1>>,
   q_2  |-> <<"ori", 2>>, b_w2 |-> <<"bias_g", 2>>, v_2 |-> <<"vel", 2>>, b_a2 |-> <<"bias_a", 2>>, p_2 |-> <<"pos", 2>>]

(* What the residual from a row on is computed from.                       *)
ImuResidual ==
  [row \in {0, 3, 6, 9, 12} |->
    CASE row = 0  -> {"q_1", "q_2", "b_w1"}
      [] row = 3  -> {"b_w1", "b_w2"}
      [] row = 6  -> {"q_1", "v_1", "v_2", "b_w1", "b_a1"}
      [] row = 9  -> {"b_a1", "b_a2"}
      [] row = 12 -> {"q_1", "p_1", "p_2", "v_1", "b_w1", "b_a1"}]

(* The blocks of the Jacobian that are assigned: <<row, column>>.          *)
ImuJacobian ==
  {<<0, 0>>, <<0, 15>>, <<0, 3>>, <<3, 3>>, <<3, 18>>,
   <<6, 0>>, <<6, 6>>, <<6, 21>>, <<6, 3>>, <<6, 9>>, <<9, 9>>, <<9, 24>>,
   <<12, 0>>, <<12, 6>>, <<12, 12>>, <<12, 27>>, <<12, 3>>, <<12, 9>>}

(* The first column that is copied to jacobians[i].                        *)
ImuStored == [i \in 0 .. 9 |-> IF i < 5 THEN 3 * i ELSE 15 + 3 * (i - 5)]

(* The arguments at the call, the formals, and what each member is set to. *)
Passed == <<"DT", "gravity", "alpha_tau", "beta_tau", "q_k2tau", "b_a_lin", "b_w_lin",
            "J_q", "J_b", "J_a", "H_b", "H_a", "P_meas">>
Formals == <<"deltatime", "grav", "alpha", "beta", "q_KtoK1", "ba_lin", "bg_lin",
             "J_q", "J_beta", "J_alpha", "H_beta", "H_alpha", "covariance">>
Members ==
  [dt |-> "deltatime", grav_save |-> "grav", alpha |-> "alpha", beta |-> "beta", q_breve |-> "q_KtoK1",
   b_a_lin_save |-> "ba_lin", b_w_lin_save |-> "bg_lin", J_q |-> "J_q", J_b |-> "J_beta", J_a |-> "J_alpha",
   H_b |-> "H_beta", H_a |-> "H_alpha", sqrtI_save |-> "covariance"]
Member(x) == Passed[CHOOSE i \in DOMAIN Formals : Formals[i] = Members[x]]

(* What a residual compares its states with: the mean, and its derivative  *)
(* by each bias; a derivative that is not there is zero.                   *)
Corrections ==
  [row \in {0, 6, 12} |->
    CASE row = 0  -> [mean |-> "q_breve", by_w |-> "J_q", by_a |-> "none"]
      [] row = 6  -> [mean |-> "beta", by_w |-> "J_b", by_a |-> "H_b"]
      [] row = 12 -> [mean |-> "alpha", by_w |-> "J_a", by_a |-> "H_a"]]

-----------------------------------------------------------------------------
(* CpiV1::feed_IMU: the members each statement sets and those it reads.    *)

(* The rotation at the end of the interval, R_k2tau1 and its transpose, is *)
(* local; the member R_k2tau gets it last.                                 *)
FeedImu ==
  <<[sets |-> "alpha_tau", of |-> "alpha_tau", reads |-> {"beta_tau", "R_tau12k"}],
    [sets |-> "beta_tau", of |-> "beta_tau", reads |-> {"R_tau12k"}],
    [sets |-> "J_q", of |-> "q_k2tau", reads |-> {"J_q"}],
    [sets |-> "H_a", of |-> "alpha_tau", reads |-> {"H_b", "R_tau12k"}],
    [sets |-> "H_b", of |-> "beta_tau", reads |-> {"R_tau12k"}],
    [sets |-> "J_a", of |-> "alpha_tau", reads |-> {"J_b", "J_q", "R_tau12k"}],
    [sets |-> "J_b", of |-> "beta_tau", reads |-> {"J_q", "R_tau12k"}],
    [sets |-> "P_meas", of |-> "covariance", reads |-> {"R_k2tau", "R_mid", "R_tau12k"}],
    [sets |-> "R_k2tau", of |-> "q_k2tau", reads |-> {"R_tau12k"}],
    [sets |-> "q_k2tau", of |-> "q_k2tau", reads |-> {"R_k2tau"}]>>

Statement(x) == CHOOSE i \in DOMAIN FeedImu : FeedImu[i].sets = x
(* Is x, read by the statement that sets y, already that of the new time?  *)
ReadNew(y, x) == \E i \in 1 .. Statement(y) - 1 : FeedImu[i].sets = x

(* F_k1, F_k2, F_k4, G_k1, G_k2, G_k4: blocks that are not zero.           *)
CpiF == {<<0, 0>>, <<0, 3>>, <<6, 0>>, <<6, 9>>, <<12, 6>>}
CpiG == {<<0, 0>>, <<3, 3>>, <<6, 6>>, <<9, 9>>}
(* Q_c of CpiBase: whose noise starts at which row.                        *)
CpiNoise == [sigma_w |-> 0, sigma_wb |-> 3, sigma_a |-> 6, sigma_ab |-> 9]

-----------------------------------------------------------------------------
(* Factor_ImageReprojCalib *)

ImageSizes == <<4, 3, 3, 4, 3, 8>>
ImageReads == [q_GtoIi |-> 0, p_IiinG |-> 1, p_FinG |-> 2, q_ItoC |-> 3, p_IinC |-> 4, camera_vals |-> 5]
ImageTakenFor ==
  [q_GtoIi |-> "ori", p_IiinG |-> "pos", p_FinG |-> "feat",
   q_ItoC |-> "calib_ori", p_IinC |-> "calib_pos", camera_vals |-> "calib_cam"]
(* Columns written to jacobians[i], and those of them set to zero.         *)
ImageWritten == <<<<3, 1>>, <<3, 0>>, <<3, 0>>, <<3, 1>>, <<3, 0>>, <<8, 0>>>>

-----------------------------------------------------------------------------
(* The covariance that is handed back *)

ImuOrder == <<"ori", "pos", "vel", "bias_g", "bias_a">>
Offset(kind) == 3 * ((CHOOSE i \in DOMAIN ImuOrder : ImuOrder[i] = kind) - 1)

(* The pairs that are computed.                                            *)
covariance_blocks ==
  {<<"ori", "ori">>, <<"pos", "pos">>, <<"vel", "vel">>, <<"bias_g", "bias_g">>, <<"bias_a", "bias_a">>,
   <<"ori", "pos">>, <<"ori", "vel">>, <<"ori", "bias_g">>, <<"ori", "bias_a">>,
   <<"pos", "vel">>, <<"pos", "bias_g">>, <<"pos", "bias_a">>,
   <<"vel", "bias_g">>, <<"vel", "bias_a">>, <<"bias_g", "bias_a">>}

(* The pair that is read and where it goes; the transpose goes opposite.   *)
CovarianceReads ==
  {<<<<"ori", "ori">>, 0, 0>>, <<<<"pos", "pos">>, 3, 3>>, <<<<"vel", "vel">>, 6, 6>>,
   <<<<"bias_g", "bias_g">>, 9, 9>>, <<<<"bias_a", "bias_a">>, 12, 12>>,
   <<<<"ori", "pos">>, 0, 3>>, <<<<"ori", "vel">>, 0, 6>>, <<<<"ori", "bias_g">>, 0, 9>>, <<<<"ori", "bias_a">>, 0, 12>>,
   <<<<"pos", "vel">>, 3, 6>>, <<<<"pos", "bias_g">>, 3, 9>>, <<<<"pos", "bias_a">>, 3, 12>>,
   <<<<"vel", "bias_g">>, 6, 9>>, <<<<"vel", "bias_a">>, 6, 12>>, <<<<"bias_g", "bias_a">>, 9, 12>>}

(* Blocks inflated afterwards, by the option named for them.               *)
Inflated == [orientation |-> 0, velocity |-> 6, bias_gyro |-> 9, bias_accel |-> 12]

-----------------------------------------------------------------------------
(* What has to agree; InitialProblem states it of the factors it adds. *)

PriorFits(prior) ==
  /\ \A i \in DOMAIN prior.types :
       /\ PriorSize(prior.types[i]) = BlockSize(prior.params[i][1])
       /\ GlobalIt(prior, i) = prior.x_lin[i]
  /\ Sum(Sizes(prior)) = prior.x_rows /\ Sum(Errors(prior)) = prior.info_rows
  /\ \A j \in DOMAIN prior.info :
       prior.info[j][1] = Sum([k \in 1 .. j - 1 |-> prior.info[k][2]])
  /\ Sum([k \in DOMAIN prior.info |-> prior.info[k][2]]) = prior.info_rows

(* Every factor reads a parameter at the place it was pushed to, with the  *)
(* size its block has; the first column copied to jacobians[i] is the one  *)
(* the derivatives by parameter i were written from, for every row that    *)
(* depends on it and for no other; the last column of a quaternion is left *)
(* zero.                                                                   *)
ImuFits(k, k1) ==
  LET params == ImuParams(k, k1)
  IN /\ \A i \in 1 .. 10 : BlockSize(params[i][1]) = ImuSizes[i]
     /\ \A x \in DOMAIN ImuReads :
          /\ params[ImuReads[x] + 1] = <<TakenFor[x][1], IF TakenFor[x][2] = 1 THEN k ELSE k1>>
          /\ {row \in DOMAIN ImuResidual : <<row, ImuStored[ImuReads[x]]>> \in ImuJacobian}
               = {row \in DOMAIN ImuResidual : x \in ImuResidual[row]}

(* The row of a quantity in the factor's residual; what the error of one   *)
(* is driven by, and the noise that enters it.                             *)
Row(kind) == 3 * ((CHOOSE i \in 1 .. 5 : StateParams(1)[i][1] = kind) - 1)
Motion == {<<"ori", "ori">>, <<"ori", "bias_g">>, <<"vel", "ori">>, <<"vel", "bias_a">>, <<"pos", "vel">>}
Noise  == [sigma_w |-> "ori", sigma_wb |-> "bias_g", sigma_a |-> "vel", sigma_ab |-> "bias_a"]

ImageFits(t, f, cam) ==
  LET params == ImageParams(t, f, cam)
  IN /\ \A i \in 1 .. 6 :
          /\ BlockSize(params[i][1]) = ImageSizes[i]
          /\ ImageWritten[i] = <<TangentSize(params[i][1]), BlockSize(params[i][1]) - TangentSize(params[i][1])>>
     /\ \A x \in DOMAIN ImageReads : params[ImageReads[x] + 1][1] = ImageTakenFor[x]

(* The members of the factor are the preintegrated values they are named   *)
(* for: the mean of a row and the derivatives of that mean by either bias. *)
(* In feed_IMU a derivative reads the value of the same time as the mean   *)
(* it is the derivative of, and the noise blocks are those of the factor's *)
(* residuals.                                                              *)
PreintegrationFits ==
  LET row(mean) == CHOOSE r \in DOMAIN Corrections : Member(Corrections[r].mean) = mean
      Derivative(mean) == {Member(d) : d \in {Corrections[row(mean)].by_w, Corrections[row(mean)].by_a} \ {"none"}}
  IN /\ \A mean \in {"alpha_tau", "beta_tau", "q_k2tau"} :
          \A d \in Derivative(mean) : FeedImu[Statement(d)].of = mean
     /\ Member("b_a_lin_save") = "b_a_lin" /\ Member("b_w_lin_save") = "b_w_lin"
     /\ \A b \in {"H_b", "J_b"} : \A a \in {"H_a", "J_a"} :
          b \in FeedImu[Statement(a)].reads => ReadNew(a, b) = ReadNew("alpha_tau", "beta_tau")
     (* The turned rotation goes with the new J_q, the old one with P_meas. *)
     /\ \A x \in {"J_a", "J_b"} : ReadNew(x, "J_q")
     /\ ~ReadNew("P_meas", "R_k2tau") /\ ReadNew("q_k2tau", "R_k2tau")
     (* Rows and columns of the noise are those of the factor's residuals.  *)
     /\ CpiF = {<<Row(d[1]), Row(d[2])>> : d \in Motion}
     /\ CpiG = {<<Row(Noise[n]), CpiNoise[n]>> : n \in DOMAIN Noise}

CovarianceFits(cams) ==
  /\ \A r \in CovarianceReads :
       r[1] \in covariance_blocks /\ r[2] = Offset(r[1][1]) /\ r[3] = Offset(r[1][2])
  /\ {<<r[2], r[3]>> : r \in CovarianceReads} \cup {<<r[3], r[2]>> : r \in CovarianceReads}
       = {0, 3, 6, 9, 12} \X {0, 3, 6, 9, 12}
  /\ \A opt_calib \in BOOLEAN :
       NullSpaceRank(cams, opt_calib) =
         Cardinality({p \in ConstantBlocks(cams, opt_calib) \X (1 .. 8) : p[2] <= TangentSize(p[1][1])})
=============================================================================
