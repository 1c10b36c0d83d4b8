--------------------------- MODULE PbTokenfactory ---------------------------
(***************************************************************************)
(* The x/tokenfactory messages as gogoproto compiles them, the version the *)
(* node's handlers and its stores use. A message has the table of its      *)
(* struct, and of what Size adds up, what MarshalToSizedBuffer writes      *)
(* (from the end of the buffer to its start) and which field each case of  *)
(* Unmarshal reads (the case number is the place in the table).            *)
(***************************************************************************)
EXTENDS ProtoFields

-----------------------------------------------------------------------------
(* x/tokenfactory/types/params.pb.go.                                      *)

Params_Struct == <<>>
Params_Size == <<>>
Params_Marshal == <<>>
Params_Unmarshal == <<>>

-----------------------------------------------------------------------------
(* x/tokenfactory/types/denom.pb.go.                                       *)

Denom_Struct ==
    <<Str("Denom"), Str("Description"), Str("Ticker"), Int32("Precision"), Str("Url"),
      Int32("MaxSupply"), Int32("Supply"), Bool("CanChangeMaxSupply"), Str("Owner")>>
Denom_Size ==
    <<Str("Denom"), Str("Description"), Str("Ticker"), Int32("Precision"), Str("Url"),
      Int32("MaxSupply"), Int32("Supply"), Bool("CanChangeMaxSupply"), Str("Owner")>>
Denom_Marshal ==
    <<At(\h4A, Str("Owner")), At(\h40, Bool("CanChangeMaxSupply")),
      At(\h38, Int32("Supply")), At(\h30, Int32("MaxSupply")), At(\h2A, Str("Url")),
      At(\h20, Int32("Precision")), At(\h1A, Str("Ticker")), At(\h12, Str("Description")),
      At(\hA, Str("Denom"))>>
Denom_Unmarshal ==
    <<Str("Denom"), Str("Description"), Str("Ticker"), Int32("Precision"), Str("Url"),
      Int32("MaxSupply"), Int32("Supply"), Bool("CanChangeMaxSupply"), Str("Owner")>>

-----------------------------------------------------------------------------
(* x/tokenfactory/types/genesis.pb.go.                                     *)

GenesisState_Struct == <<Nested("Params", "Params"), List("DenomList", "Denom")>>
GenesisState_Size == <<Nested("Params", "Params"), List("DenomList", "Denom")>>
GenesisState_Marshal ==
    <<At(\h12, List("DenomList", "Denom")), At(\hA, Nested("Params", "Params"))>>
GenesisState_Unmarshal == <<Nested("Params", "Params"), List("DenomList", "Denom")>>

-----------------------------------------------------------------------------
(* x/tokenfactory/types/query.pb.go.                                       *)

QueryParamsRequest_Struct == <<>>
QueryParamsRequest_Size == <<>>
QueryParamsRequest_Marshal == <<>>
QueryParamsRequest_Unmarshal == <<>>

QueryParamsResponse_Struct == <<Nested("Params", "Params")>>
QueryParamsResponse_Size == <<Nested("Params", "Params")>>
QueryParamsResponse_Marshal == <<At(\hA, Nested("Params", "Params"))>>
QueryParamsResponse_Unmarshal == <<Nested("Params", "Params")>>

QueryGetDenomRequest_Struct == <<Str("Denom")>>
QueryGetDenomRequest_Size == <<Str("Denom")>>
QueryGetDenomRequest_Marshal == <<At(\hA, Str("Denom"))>>
QueryGetDenomRequest_Unmarshal == <<Str("Denom")>>

QueryGetDenomResponse_Struct == <<Nested("Denom", "Denom")>>
QueryGetDenomResponse_Size == <<Nested("Denom", "Denom")>>
QueryGetDenomResponse_Marshal == <<At(\hA, Nested("Denom", "Denom"))>>
QueryGetDenomResponse_Unmarshal == <<Nested("Denom", "Denom")>>

QueryAllDenomRequest_Struct == <<Pointer("Pagination", "PageRequest")>>
QueryAllDenomRequest_Size == <<Pointer("Pagination", "PageRequest")>>
QueryAllDenomRequest_Marshal == <<At(\hA, Pointer("Pagination", "PageRequest"))>>
QueryAllDenomRequest_Unmarshal == <<Pointer("Pagination", "PageRequest")>>

QueryAllDenomResponse_Struct ==
    <<List("Denom", "Denom"), Pointer("Pagination", "PageResponse")>>
QueryAllDenomResponse_Size == <<List("Denom", "Denom"), Pointer("Pagination", "PageResponse")>>
QueryAllDenomResponse_Marshal ==
    <<At(\h12, Pointer("Pagination", "PageResponse")), At(\hA, List("Denom", "Denom"))>>
QueryAllDenomResponse_Unmarshal ==
    <<List("Denom", "Denom"), Pointer("Pagination", "PageResponse")>>

-----------------------------------------------------------------------------
(* x/tokenfactory/types/tx.pb.go.                                          *)

MsgUpdateParams_Struct == <<Str("Authority"), Nested("Params", "Params")>>
MsgUpdateParams_Size == <<Str("Authority"), Nested("Params", "Params")>>
MsgUpdateParams_Marshal == <<At(\h12, Nested("Params", "Params")), At(\hA, Str("Authority"))>>
MsgUpdateParams_Unmarshal == <<Str("Authority"), Nested("Params", "Params")>>

MsgUpdateParamsResponse_Struct == <<>>
MsgUpdateParamsResponse_Size == <<>>
MsgUpdateParamsResponse_Marshal == <<>>
MsgUpdateParamsResponse_Unmarshal == <<>>

MsgCreateDenom_Struct ==
    <<Str("Owner"), Str("Denom"), Str("Description"), Str("Ticker"), Int32("Precision"),
      Str("Url"), Int32("MaxSupply"), Int32("Supply"), Bool("CanChangeMaxSupply")>>
MsgCreateDenom_Size ==
    <<Str("Owner"), Str("Denom"), Str("Description"), Str("Ticker"), Int32("Precision"),
      Str("Url"), Int32("MaxSupply"), Int32("Supply"), Bool("CanChangeMaxSupply")>>
MsgCreateDenom_Marshal ==
    <<At(\h48, Bool("CanChangeMaxSupply")), At(\h40, Int32("Supply")),
      At(\h38, Int32("MaxSupply")), At(\h32, Str("Url")), At(\h28, Int32("Precision")),
      At(\h22, Str("Ticker")), At(\h1A, Str("Description")), At(\h12, Str("Denom")),
      At(\hA, Str("Owner"))>>
MsgCreateDenom_UnmarshalRenumbered ==
    <<Str("Denom"), Str("Owner"), Str("Description"), Str("Ticker"), Int32("Precision"),
      Str("Url"), Int32("MaxSupply"), Int32("Supply"), Bool("CanChangeMaxSupply")>>
MsgCreateDenom_Unmarshal ==
    <<Str("Owner"), Str("Denom"), Str("Description"), Str("Ticker"), Int32("Precision"),
      Str("Url"), Int32("MaxSupply"), Int32("Supply"), Bool("CanChangeMaxSupply")>>

MsgCreateDenomResponse_Struct == <<>>
MsgCreateDenomResponse_Size == <<>>
MsgCreateDenomResponse_Marshal == <<>>
MsgCreateDenomResponse_Unmarshal == <<>>

MsgUpdateDenom_Struct ==
    <<Str("Owner"), Str("Denom"), Str("Description"), Str("Ticker"), Int32("Precision"),
      Str("Url"), Int32("MaxSupply"), Int32("Supply"), Bool("CanChangeMaxSupply")>>
MsgUpdateDenom_Size ==
    <<Str("Owner"), Str("Denom"), Str("Description"), Str("Ticker"), Int32("Precision"),
      Str("Url"), Int32("MaxSupply"), Int32("Supply"), Bool("CanChangeMaxSupply")>>
MsgUpdateDenom_Marshal ==
    <<At(\h48, Bool("CanChangeMaxSupply")), At(\h40, Int32("Supply")),
      At(\h38, Int32("MaxSupply")), At(\h32, Str("Url")), At(\h28, Int32("Precision")),
      At(\h22, Str("Ticker")), At(\h1A, Str("Description")), At(\h12, Str("Denom")),
      At(\hA, Str("Owner"))>>
MsgUpdateDenom_Unmarshal ==
    <<Str("Owner"), Str("Denom"), Str("Description"), Str("Ticker"), Int32("Precision"),
      Str("Url"), Int32("MaxSupply"), Int32("Supply"), Bool("CanChangeMaxSupply")>>

MsgUpdateDenomResponse_Struct == <<>>
MsgUpdateDenomResponse_Size == <<>>
MsgUpdateDenomResponse_Marshal == <<>>
MsgUpdateDenomResponse_Unmarshal == <<>>

MsgDeleteDenom_Struct == <<Str("Owner"), Str("Denom")>>
MsgDeleteDenom_Size == <<Str("Owner"), Str("Denom")>>
MsgDeleteDenom_Marshal == <<At(\h12, Str("Denom")), At(\hA, Str("Owner"))>>
MsgDeleteDenom_Unmarshal == <<Str("Owner"), Str("Denom")>>

MsgDeleteDenomResponse_Struct == <<>>
MsgDeleteDenomResponse_Size == <<>>
MsgDeleteDenomResponse_Marshal == <<>>
MsgDeleteDenomResponse_Unmarshal == <<>>

-----------------------------------------------------------------------------

Types ==
    [Params |-> Methods(Params_Struct, Params_Size, Params_Marshal, Params_Unmarshal),
     Denom |-> Methods(Denom_Struct, Denom_Size, Denom_Marshal, Denom_Unmarshal),
     GenesisState |-> Methods(
        GenesisState_Struct, GenesisState_Size, GenesisState_Marshal, GenesisState_Unmarshal),
     QueryParamsRequest |-> Methods(
        QueryParamsRequest_Struct, QueryParamsRequest_Size,
        QueryParamsRequest_Marshal, QueryParamsRequest_Unmarshal),
     QueryParamsResponse |-> Methods(
        QueryParamsResponse_Struct, QueryParamsResponse_Size,
        QueryParamsResponse_Marshal, QueryParamsResponse_Unmarshal),
     QueryGetDenomRequest |-> Methods(
        QueryGetDenomRequest_Struct, QueryGetDenomRequest_Size,
        QueryGetDenomRequest_Marshal, QueryGetDenomRequest_Unmarshal),
     QueryGetDenomResponse |-> Methods(
        QueryGetDenomResponse_Struct, QueryGetDenomResponse_Size,
        QueryGetDenomResponse_Marshal, QueryGetDenomResponse_Unmarshal),
     QueryAllDenomRequest |-> Methods(
        QueryAllDenomRequest_Struct, QueryAllDenomRequest_Size,
        QueryAllDenomRequest_Marshal, QueryAllDenomRequest_Unmarshal),
     QueryAllDenomResponse |-> Methods(
        QueryAllDenomResponse_Struct, QueryAllDenomResponse_Size,
        QueryAllDenomResponse_Marshal, QueryAllDenomResponse_Unmarshal),
     MsgUpdateParams |-> Methods(
        MsgUpdateParams_Struct, MsgUpdateParams_Size,
        MsgUpdateParams_Marshal, MsgUpdateParams_Unmarshal),
     MsgUpdateParamsResponse |-> Methods(
        MsgUpdateParamsResponse_Struct, MsgUpdateParamsResponse_Size,
        MsgUpdateParamsResponse_Marshal, MsgUpdateParamsResponse_Unmarshal),
     MsgCreateDenom |-> Methods(
        MsgCreateDenom_Struct, MsgCreateDenom_Size,
        MsgCreateDenom_Marshal, MsgCreateDenom_Unmarshal),
     MsgCreateDenomResponse |-> Methods(
        MsgCreateDenomResponse_Struct, MsgCreateDenomResponse_Size,
        MsgCreateDenomResponse_Marshal, MsgCreateDenomResponse_Unmarshal),
     MsgUpdateDenom |-> Methods(
        MsgUpdateDenom_Struct, MsgUpdateDenom_Size,
        MsgUpdateDenom_Marshal, MsgUpdateDenom_Unmarshal),
     MsgUpdateDenomResponse |-> Methods(
        MsgUpdateDenomResponse_Struct, MsgUpdateDenomResponse_Size,
        MsgUpdateDenomResponse_Marshal, MsgUpdateDenomResponse_Unmarshal),
     MsgDeleteDenom |-> Methods(
        MsgDeleteDenom_Struct, MsgDeleteDenom_Size,
        MsgDeleteDenom_Marshal, MsgDeleteDenom_Unmarshal),
     MsgDeleteDenomResponse |-> Methods(
        MsgDeleteDenomResponse_Struct, MsgDeleteDenomResponse_Size,
        MsgDeleteDenomResponse_Marshal, MsgDeleteDenomResponse_Unmarshal),
     PageRequest |-> PageRequest,
     PageResponse |-> PageResponse]
=============================================================================
