----------------------------- MODULE MCMarshal -----------------------------
(***************************************************************************)
(* All JNI functions, about nothing, one and a few characters or elements: *)
(* lengths that do and do not end at a word; methods with up to three      *)
(* parameters whose signatures have a letter for each, too many, too few,  *)
(* and as many by chance: ()V, (I)V, (J)V, (F)V, (Ljava/lang/String;)V,    *)
(* (Ljava/lang/String;I)V, (Ljava/lang/String;J)V, (FLjava/lang/String;)V, *)
(* ([FLjava/lang/String;)V, ([FJ)V, (IJI)V and (Ljava/lang/StringBuilder;) *)
(* with an int in front of it.                                             *)
(***************************************************************************)
EXTENDS Marshal

MCSignatures ==
    {<<>>, <<WordParam>>, <<WideParam>>, <<FloatParam>>, <<ClassParam(1)>>, <<ClassParam(1), WordParam>>,
     <<ClassParam(1), WideParam>>, <<FloatParam, ClassParam(1)>>, <<FloatArrayParam, ClassParam(1)>>,
     <<FloatArrayParam, WideParam>>, <<WordParam, WideParam, WordParam>>, <<WordParam, ClassParam(2)>>}
=============================================================================
