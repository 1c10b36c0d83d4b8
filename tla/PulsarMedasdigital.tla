------------------------- MODULE PulsarMedasdigital -------------------------
(***************************************************************************)
(* The medasdigital messages as pulsar compiles them, the version behind   *)
(* proto reflection: the command line, the signer lookup and the app       *)
(* configuration. A message has the table of the fields its Range and Has  *)
(* know, of those its Set, Clear, Get, Mutable and NewField know, and of   *)
(* the blocks of the size, marshal (from the end of the buffer to its      *)
(* start) and unmarshal closures of ProtoMethods. The functions of a       *)
(* message without fields fall through to their default: its tables are    *)
(* empty.                                                                  *)
(***************************************************************************)
EXTENDS ProtoFields

-----------------------------------------------------------------------------
(* api/medasdigital/medasdigital/params.pulsar.go.                         *)

Params_Struct == <<>>
Params_Methods == <<>>

-----------------------------------------------------------------------------
(* api/medasdigital/medasdigital/genesis.pulsar.go.                        *)

GenesisState_Range == <<Pointer("Params", "Params")>>
GenesisState_Struct == <<Pointer("Params", "Params")>>
GenesisState_Size == <<Pointer("Params", "Params")>>
GenesisState_Marshal == <<At(\hA, Pointer("Params", "Params"))>>
GenesisState_Unmarshal == <<Pointer("Params", "Params")>>

-----------------------------------------------------------------------------
(* api/medasdigital/medasdigital/query.pulsar.go.                          *)

QueryParamsRequest_Struct == <<>>
QueryParamsRequest_Methods == <<>>

QueryParamsResponse_Range == <<Pointer("Params", "Params")>>
QueryParamsResponse_Struct == <<Pointer("Params", "Params")>>
QueryParamsResponse_Size == <<Pointer("Params", "Params")>>
QueryParamsResponse_Marshal == <<At(\hA, Pointer("Params", "Params"))>>
QueryParamsResponse_Unmarshal == <<Pointer("Params", "Params")>>

-----------------------------------------------------------------------------
(* api/medasdigital/medasdigital/tx.pulsar.go.                             *)

MsgUpdateParams_Range == <<Str("Authority"), Pointer("Params", "Params")>>
MsgUpdateParams_Struct == <<Str("Authority"), Pointer("Params", "Params")>>
MsgUpdateParams_Size == <<Str("Authority"), Pointer("Params", "Params")>>
MsgUpdateParams_Marshal == <<At(\h12, Pointer("Params", "Params")), At(\hA, Str("Authority"))>>
MsgUpdateParams_Unmarshal == <<Str("Authority"), Pointer("Params", "Params")>>

MsgUpdateParamsResponse_Struct == <<>>
MsgUpdateParamsResponse_Methods == <<>>

-----------------------------------------------------------------------------
(* api/medasdigital/medasdigital/module/module.pulsar.go.                  *)

Module_Range == <<Str("Authority")>>
Module_Struct == <<Str("Authority")>>
Module_Size == <<Str("Authority")>>
Module_Marshal == <<At(\hA, Str("Authority"))>>
Module_Unmarshal == <<Str("Authority")>>

-----------------------------------------------------------------------------

Types ==
    [Params |-> Methods(Params_Struct, Params_Methods, Params_Methods, Params_Methods),
     GenesisState |-> Methods(
        GenesisState_Struct, GenesisState_Size, GenesisState_Marshal, GenesisState_Unmarshal),
     QueryParamsRequest |-> Methods(
        QueryParamsRequest_Struct, QueryParamsRequest_Methods,
        QueryParamsRequest_Methods, QueryParamsRequest_Methods),
     QueryParamsResponse |-> Methods(
        QueryParamsResponse_Struct, QueryParamsResponse_Size,
        QueryParamsResponse_Marshal, QueryParamsResponse_Unmarshal),
     MsgUpdateParams |-> Methods(
        MsgUpdateParams_Struct, MsgUpdateParams_Size,
        MsgUpdateParams_Marshal, MsgUpdateParams_Unmarshal),
     MsgUpdateParamsResponse |-> Methods(
        MsgUpdateParamsResponse_Struct, MsgUpdateParamsResponse_Methods,
        MsgUpdateParamsResponse_Methods, MsgUpdateParamsResponse_Methods),
     Module |-> Methods(Module_Struct, Module_Size, Module_Marshal, Module_Unmarshal)]

\* What Range visits and Has reports, by message type.
Ranges ==
    [Params |-> Params_Struct,
     GenesisState |-> GenesisState_Range,
     QueryParamsRequest |-> QueryParamsRequest_Struct,
     QueryParamsResponse |-> QueryParamsResponse_Range,
     MsgUpdateParams |-> MsgUpdateParams_Range,
     MsgUpdateParamsResponse |-> MsgUpdateParamsResponse_Struct,
     Module |-> Module_Range]
=============================================================================
