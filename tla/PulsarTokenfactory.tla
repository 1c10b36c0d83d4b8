------------------------- MODULE PulsarTokenfactory -------------------------
(***************************************************************************)
(* The tokenfactory messages as pulsar compiles them, the version behind   *)
(* proto reflection: the command line, the signer lookup and the app       *)
(* configuration. A message has the table of the fields its Range and Has  *)
(* know, of those its Set, Clear, Get, Mutable and NewField know, and of   *)
(* the blocks of the size, marshal (from the end of the buffer to its      *)
(* start) and unmarshal closures of ProtoMethods. The functions of a       *)
(* message without fields fall through to their default: its tables are    *)
(* empty.                                                                  *)
(***************************************************************************)
EXTENDS ProtoFields

-----------------------------------------------------------------------------
(* api/medasdigital/tokenfactory/params.pulsar.go.                         *)

Params_Struct == <<>>
Params_Methods == <<>>

-----------------------------------------------------------------------------
(* api/medasdigital/tokenfactory/denom.pulsar.go.                          *)

Denom_Range ==
    <<Str("Denom"), Str("Description"), Str("Ticker"), Int32("Precision"), Str("Url"),
      Int32("MaxSupply"), Int32("Supply"), Bool("CanChangeMaxSupply"), Str("Owner")>>
Denom_Struct ==
    <<Str("Denom"), Str("Description"), Str("Ticker"), Int32("Precision"), Str("Url"),
      Int32("MaxSupply"), Int32("Supply"), Bool("CanChangeMaxSupply"), Str("Owner")>>
Denom_Size ==
    <<Str("Denom"), Str("Description"), Str("Ticker"), Int32("Precision"), Str("Url"),
      Int32("MaxSupply"), Int32("Supply"), Bool("CanChangeMaxSupply"), Str("Owner")>>
Denom_Marshal ==
    <<At(\h4A, Str("Owner")), At(\h40, Bool("CanChangeMaxSupply")),
      At(\h38, Int32("Supply")), At(\h30, Int32("MaxSupply")), At(\h2A, Str("Url")),
      At(\h20, Int32("Precision")), At(\h1A, Str("Ticker")), At(\h12, Str("Description")),
      At(\hA, Str("Denom"))>>
Denom_Unmarshal ==
    <<Str("Denom"), Str("Description"), Str("Ticker"), Int32("Precision"), Str("Url"),
      Int32("MaxSupply"), Int32("Supply"), Bool("CanChangeMaxSupply"), Str("Owner")>>

-----------------------------------------------------------------------------
(* api/medasdigital/tokenfactory/genesis.pulsar.go.                        *)

GenesisState_Range == <<Pointer("Params", "Params"), List("DenomList", "Denom")>>
GenesisState_Struct == <<Pointer("Params", "Params"), List("DenomList", "Denom")>>
GenesisState_Size == <<Pointer("Params", "Params"), List("DenomList", "Denom")>>
GenesisState_Marshal ==
    <<At(\h12, List("DenomList", "Denom")), At(\hA, Pointer("Params", "Params"))>>
GenesisState_Unmarshal == <<Pointer("Params", "Params"), List("DenomList", "Denom")>>

-----------------------------------------------------------------------------
(* api/medasdigital/tokenfactory/query.pulsar.go.                          *)

QueryParamsRequest_Struct == <<>>
QueryParamsRequest_Methods == <<>>

QueryParamsResponse_Range == <<Pointer("Params", "Params")>>
QueryParamsResponse_Struct == <<Pointer("Params", "Params")>>
QueryParamsResponse_Size == <<Pointer("Params", "Params")>>
QueryParamsResponse_Marshal == <<At(\hA, Pointer("Params", "Params"))>>
QueryParamsResponse_Unmarshal == <<Pointer("Params", "Params")>>

QueryGetDenomRequest_Range == <<Str("Denom")>>
QueryGetDenomRequest_Struct == <<Str("Denom")>>
QueryGetDenomRequest_Size == <<Str("Denom")>>
QueryGetDenomRequest_Marshal == <<At(\hA, Str("Denom"))>>
QueryGetDenomRequest_Unmarshal == <<Str("Denom")>>

QueryGetDenomResponse_Range == <<Pointer("Denom", "Denom")>>
QueryGetDenomResponse_Struct == <<Pointer("Denom", "Denom")>>
QueryGetDenomResponse_Size == <<Pointer("Denom", "Denom")>>
QueryGetDenomResponse_Marshal == <<At(\hA, Pointer("Denom", "Denom"))>>
QueryGetDenomResponse_Unmarshal == <<Pointer("Denom", "Denom")>>

QueryAllDenomRequest_Range == <<Pointer("Pagination", "PageRequest")>>
QueryAllDenomRequest_Struct == <<Pointer("Pagination", "PageRequest")>>
QueryAllDenomRequest_Size == <<Pointer("Pagination", "PageRequest")>>
QueryAllDenomRequest_Marshal == <<At(\hA, Pointer("Pagination", "PageRequest"))>>
QueryAllDenomRequest_Unmarshal == <<Pointer("Pagination", "PageRequest")>>

QueryAllDenomResponse_Range == <<List("Denom", "Denom"), Pointer("Pagination", "PageResponse")>>
QueryAllDenomResponse_Struct ==
    <<List("Denom", "Denom"), Pointer("Pagination", "PageResponse")>>
QueryAllDenomResponse_Size == <<List("Denom", "Denom"), Pointer("Pagination", "PageResponse")>>
QueryAllDenomResponse_Marshal ==
    <<At(\h12, Pointer("Pagination", "PageResponse")), At(\hA, List("Denom", "Denom"))>>
QueryAllDenomResponse_Unmarshal ==
    <<List("Denom", "Denom"), Pointer("Pagination", "PageResponse")>>

-----------------------------------------------------------------------------
(* api/medasdigital/tokenfactory/tx.pulsar.go.                             *)

MsgUpdateParams_Range == <<Str("Authority"), Pointer("Params", "Params")>>
MsgUpdateParams_Struct == <<Str("Authority"), Pointer("Params", "Params")>>
MsgUpdateParams_Size == <<Str("Authority"), Pointer("Params", "Params")>>
MsgUpdateParams_Marshal == <<At(\h12, Pointer("Params", "Params")), At(\hA, Str("Authority"))>>
MsgUpdateParams_Unmarshal == <<Str("Authority"), Pointer("Params", "Params")>>

MsgUpdateParamsResponse_Struct == <<>>
MsgUpdateParamsResponse_Methods == <<>>

MsgCreateDenom_Range ==
    <<Str("Owner"), Str("Denom"), Str("Description"), Str("Ticker"), Int32("Precision"),
      Str("Url"), Int32("MaxSupply"), Int32("Supply"), Bool("CanChangeMaxSupply")>>
MsgCreateDenom_Struct ==
    <<Str("Owner"), Str("Denom"), Str("Description"), Str("Ticker"), Int32("Precision"),
      Str("Url"), Int32("MaxSupply"), Int32("Supply"), Bool("CanChangeMaxSupply")>>
MsgCreateDenom_Size ==
    <<Str("Owner"), Str("Denom"), Str("Description"), Str("Ticker"), Int32("Precision"),
      Str("Url"), Int32("MaxSupply"), Int32("Supply"), Bool("CanChangeMaxSupply")>>
MsgCreateDenom_Marshal ==
    <<At(\h48, Bool("CanChangeMaxSupply")), At(\h40, Int32("Supply")),
      At(\h38, Int32("MaxSupply")), At(\h32, Str("Url")), At(\h28, Int32("Precision")),
      At(\h22, Str("Ticker")), At(\h1A, Str("Description")), At(\h12, Str("Denom")),
      At(\hA, Str("Owner"))>>
MsgCreateDenom_Unmarshal ==
    <<Str("Owner"), Str("Denom"), Str("Description"), Str("Ticker"), Int32("Precision"),
      Str("Url"), Int32("MaxSupply"), Int32("Supply"), Bool("CanChangeMaxSupply")>>

MsgCreateDenomResponse_Struct == <<>>
MsgCreateDenomResponse_Methods == <<>>

MsgUpdateDenom_RangeShort ==
    <<Str("Owner"), Str("Denom"), Str("Description"), Str("Ticker"), Int32("Precision"),
      Str("Url"), Int32("MaxSupply"), Int32("Supply")>>
MsgUpdateDenom_Range ==
    <<Str("Owner"), Str("Denom"), Str("Description"), Str("Ticker"), Int32("Precision"),
      Str("Url"), Int32("MaxSupply"), Int32("Supply"), Bool("CanChangeMaxSupply")>>
MsgUpdateDenom_Struct ==
    <<Str("Owner"), Str("Denom"), Str("Description"), Str("Ticker"), Int32("Precision"),
      Str("Url"), Int32("MaxSupply"), Int32("Supply"), Bool("CanChangeMaxSupply")>>
MsgUpdateDenom_Size ==
    <<Str("Owner"), Str("Denom"), Str("Description"), Str("Ticker"), Int32("Precision"),
      Str("Url"), Int32("MaxSupply"), Int32("Supply"), Bool("CanChangeMaxSupply")>>
MsgUpdateDenom_Marshal ==
    <<At(\h48, Bool("CanChangeMaxSupply")), At(\h40, Int32("Supply")),
      At(\h38, Int32("MaxSupply")), At(\h32, Str("Url")), At(\h28, Int32("Precision")),
      At(\h22, Str("Ticker")), At(\h1A, Str("Description")), At(\h12, Str("Denom")),
      At(\hA, Str("Owner"))>>
MsgUpdateDenom_Unmarshal ==
    <<Str("Owner"), Str("Denom"), Str("Description"), Str("Ticker"), Int32("Precision"),
      Str("Url"), Int32("MaxSupply"), Int32("Supply"), Bool("CanChangeMaxSupply")>>

MsgUpdateDenomResponse_Struct == <<>>
MsgUpdateDenomResponse_Methods == <<>>

MsgDeleteDenom_Range == <<Str("Owner"), Str("Denom")>>
MsgDeleteDenom_Struct == <<Str("Owner"), Str("Denom")>>
MsgDeleteDenom_Size == <<Str("Owner"), Str("Denom")>>
MsgDeleteDenom_Marshal == <<At(\h12, Str("Denom")), At(\hA, Str("Owner"))>>
MsgDeleteDenom_Unmarshal == <<Str("Owner"), Str("Denom")>>

MsgDeleteDenomResponse_Struct == <<>>
MsgDeleteDenomResponse_Methods == <<>>

-----------------------------------------------------------------------------
(* api/medasdigital/tokenfactory/module/module.pulsar.go.                  *)

Module_Range == <<Str("Authority")>>
Module_Struct == <<Str("Authority")>>
Module_Size == <<Str("Authority")>>
Module_Marshal == <<At(\hA, Str("Authority"))>>
Module_Unmarshal == <<Str("Authority")>>

-----------------------------------------------------------------------------

Types ==
    [Params |-> Methods(Params_Struct, Params_Methods, Params_Methods, Params_Methods),
     Denom |-> Methods(Denom_Struct, Denom_Size, Denom_Marshal, Denom_Unmarshal),
     GenesisState |-> Methods(
        GenesisState_Struct, GenesisState_Size, GenesisState_Marshal, GenesisState_Unmarshal),
     QueryParamsRequest |-> Methods(
        QueryParamsRequest_Struct, QueryParamsRequest_Methods,
        QueryParamsRequest_Methods, QueryParamsRequest_Methods),
     QueryParamsResponse |-> Methods(
        QueryParamsResponse_Struct, QueryParamsResponse_Size,
        QueryParamsResponse_Marshal, QueryParamsResponse_Unmarshal),
     QueryGetDenomRequest |-> Methods(
        QueryGetDenomRequest_Struct, QueryGetDenomRequest_Size,
        QueryGetDenomRequest_Marshal, QueryGetDenomRequest_Unmarshal),
     QueryGetDenomResponse |-> Methods(
        QueryGetDenomResponse_Struct, QueryGetDenomResponse_Size,
        QueryGetDenomResponse_Marshal, QueryGetDenomResponse_Unmarshal),
     QueryAllDenomRequest |-> Methods(
        QueryAllDenomRequest_Struct, QueryAllDenomRequest_Size,
        QueryAllDenomRequest_Marshal, QueryAllDenomRequest_Unmarshal),
     QueryAllDenomResponse |-> Methods(
        QueryAllDenomResponse_Struct, QueryAllDenomResponse_Size,
        QueryAllDenomResponse_Marshal, QueryAllDenomResponse_Unmarshal),
     MsgUpdateParams |-> Methods(
        MsgUpdateParams_Struct, MsgUpdateParams_Size,
        MsgUpdateParams_Marshal, MsgUpdateParams_Unmarshal),
     MsgUpdateParamsResponse |-> Methods(
        MsgUpdateParamsResponse_Struct, MsgUpdateParamsResponse_Methods,
        MsgUpdateParamsResponse_Methods, MsgUpdateParamsResponse_Methods),
     MsgCreateDenom |-> Methods(
        MsgCreateDenom_Struct, MsgCreateDenom_Size,
        MsgCreateDenom_Marshal, MsgCreateDenom_Unmarshal),
     MsgCreateDenomResponse |-> Methods(
        MsgCreateDenomResponse_Struct, MsgCreateDenomResponse_Methods,
        MsgCreateDenomResponse_Methods, MsgCreateDenomResponse_Methods),
     MsgUpdateDenom |-> Methods(
        MsgUpdateDenom_Struct, MsgUpdateDenom_Size,
        MsgUpdateDenom_Marshal, MsgUpdateDenom_Unmarshal),
     MsgUpdateDenomResponse |-> Methods(
        MsgUpdateDenomResponse_Struct, MsgUpdateDenomResponse_Methods,
        MsgUpdateDenomResponse_Methods, MsgUpdateDenomResponse_Methods),
     MsgDeleteDenom |-> Methods(
        MsgDeleteDenom_Struct, MsgDeleteDenom_Size,
        MsgDeleteDenom_Marshal, MsgDeleteDenom_Unmarshal),
     MsgDeleteDenomResponse |-> Methods(
        MsgDeleteDenomResponse_Struct, MsgDeleteDenomResponse_Methods,
        MsgDeleteDenomResponse_Methods, MsgDeleteDenomResponse_Methods),
     Module |-> Methods(Module_Struct, Module_Size, Module_Marshal, Module_Unmarshal),
     PageRequest |-> PageRequest,
     PageResponse |-> PageResponse]

\* What Range visits and Has reports, by message type.
Ranges ==
    [Params |-> Params_Struct,
     Denom |-> Denom_Range,
     GenesisState |-> GenesisState_Range,
     QueryParamsRequest |-> QueryParamsRequest_Struct,
     QueryParamsResponse |-> QueryParamsResponse_Range,
     QueryGetDenomRequest |-> QueryGetDenomRequest_Range,
     QueryGetDenomResponse |-> QueryGetDenomResponse_Range,
     QueryAllDenomRequest |-> QueryAllDenomRequest_Range,
     QueryAllDenomResponse |-> QueryAllDenomResponse_Range,
     MsgUpdateParams |-> MsgUpdateParams_Range,
     MsgUpdateParamsResponse |-> MsgUpdateParamsResponse_Struct,
     MsgCreateDenom |-> MsgCreateDenom_Range,
     MsgCreateDenomResponse |-> MsgCreateDenomResponse_Struct,
     MsgUpdateDenom |-> MsgUpdateDenom_Range,
     MsgUpdateDenomResponse |-> MsgUpdateDenomResponse_Struct,
     MsgDeleteDenom |-> MsgDeleteDenom_Range,
     MsgDeleteDenomResponse |-> MsgDeleteDenomResponse_Struct,
     Module |-> Module_Range]
=============================================================================
