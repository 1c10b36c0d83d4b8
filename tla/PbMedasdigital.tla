--------------------------- MODULE PbMedasdigital ---------------------------
(***************************************************************************)
(* The x/medasdigital messages as gogoproto compiles them, the version the *)
(* node's handlers and its stores use. A message has the table of its      *)
(* struct, and of what Size adds up, what MarshalToSizedBuffer writes      *)
(* (from the end of the buffer to its start) and which field each case of  *)
(* Unmarshal reads (the case number is the place in the table).            *)
(***************************************************************************)
EXTENDS ProtoFields

-----------------------------------------------------------------------------
(* x/medasdigital/types/params.pb.go.                                      *)

Params_Struct == <<>>
Params_Size == <<>>
Params_Marshal == <<>>
Params_Unmarshal == <<>>

-----------------------------------------------------------------------------
(* x/medasdigital/types/genesis.pb.go.                                     *)

GenesisState_Struct == <<Nested("Params", "Params")>>
GenesisState_Size == <<Nested("Params", "Params")>>
GenesisState_Marshal == <<At(\hA, Nested("Params", "Params"))>>
GenesisState_Unmarshal == <<Nested("Params", "Params")>>

-----------------------------------------------------------------------------
(* x/medasdigital/types/query.pb.go.                                       *)

QueryParamsRequest_Struct == <<>>
QueryParamsRequest_Size == <<>>
QueryParamsRequest_Marshal == <<>>
QueryParamsRequest_Unmarshal == <<>>

QueryParamsResponse_Struct == <<Nested("Params", "Params")>>
QueryParamsResponse_Size == <<Nested("Params", "Params")>>
QueryParamsResponse_Marshal == <<At(\hA, Nested("Params", "Params"))>>
QueryParamsResponse_Unmarshal == <<Nested("Params", "Params")>>

-----------------------------------------------------------------------------
(* x/medasdigital/types/tx.pb.go.                                          *)

MsgUpdateParams_Struct == <<Str("Authority"), Nested("Params", "Params")>>
MsgUpdateParams_Size == <<Str("Authority"), Nested("Params", "Params")>>
MsgUpdateParams_Marshal == <<At(\h12, Nested("Params", "Params")), At(\hA, Str("Authority"))>>
MsgUpdateParams_Unmarshal == <<Str("Authority"), Nested("Params", "Params")>>

MsgUpdateParamsResponse_Struct == <<>>
MsgUpdateParamsResponse_Size == <<>>
MsgUpdateParamsResponse_Marshal == <<>>
MsgUpdateParamsResponse_Unmarshal == <<>>

-----------------------------------------------------------------------------

Types ==
    [Params |-> Methods(Params_Struct, Params_Size, Params_Marshal, Params_Unmarshal),
     GenesisState |-> Methods(
        GenesisState_Struct, GenesisState_Size, GenesisState_Marshal, GenesisState_Unmarshal),
     QueryParamsRequest |-> Methods(
        QueryParamsRequest_Struct, QueryParamsRequest_Size,
        QueryParamsRequest_Marshal, QueryParamsRequest_Unmarshal),
     QueryParamsResponse |-> Methods(
        QueryParamsResponse_Struct, QueryParamsResponse_Size,
        QueryParamsResponse_Marshal, QueryParamsResponse_Unmarshal),
     MsgUpdateParams |-> Methods(
        MsgUpdateParams_Struct, MsgUpdateParams_Size,
        MsgUpdateParams_Marshal, MsgUpdateParams_Unmarshal),
     MsgUpdateParamsResponse |-> Methods(
        MsgUpdateParamsResponse_Struct, MsgUpdateParamsResponse_Size,
        MsgUpdateParamsResponse_Marshal, MsgUpdateParamsResponse_Unmarshal)]
=============================================================================
