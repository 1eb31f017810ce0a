------------------------------- MODULE Binders -------------------------------
(***************************************************************************)
(* What stands between SQLite and a scalar function: the bind functions of *)
(* function_bind.go.  Each has the numbers of arguments it accepts and     *)
(* what it does about arguments that are NULL:                             *)
(*   "answer"  answers NULL when any is NULL (existsNull)                  *)
(*   "first"   answers NULL when the first is NULL, and asks the others    *)
(*             for their values                                            *)
(*   "empty"   answers an empty array                                      *)
(*   "refuse"  returns an error when it is not of the type it expects      *)
(*   "call"    calls a method of the nil, which panics                     *)
(*   "second"  ROUND: converts what follows the first, then "answer"       *)
(*   "current" CURRENT_DATE and its like: looks for no NULL                *)
(*   "own"     leaves them to the function                                 *)
(* Functions are called by their name without the zetasqlite_ prefix.      *)
(***************************************************************************)
EXTENDS Cells

Unchecked == 0..8   \* binders that trust the analyzer to have counted

Bind(fs, arity, nulls) == [f \in fs |-> [arity |-> arity, nulls |-> nulls]]
AndAlso(F, G) == [f \in DOMAIN F \union DOMAIN G |-> IF f \in DOMAIN F THEN F[f] ELSE G[f]]
Table(parts) == FoldLeft(AndAlso, Head(parts), Tail(parts))

OperatorBinders ==
  Bind({"add", "subtract", "multiply", "divide", "equal", "not_equal", "greater", "greater_or_equal",
        "less", "less_or_equal", "bitwise_not", "bitwise_left_shift", "bitwise_right_shift",
        "bitwise_and", "bitwise_or", "bitwise_xor", "in_array"}, Unchecked, "answer")

AccessBinders ==
  Bind({"get_struct_field", "get_json_field", "subscript", "array_at_offset", "safe_array_at_offset",
        "array_at_ordinal", "safe_array_at_ordinal", "extract", "extract_date"}, Unchecked, "answer")

LogicBinders ==
  Table(<<Bind({"bit_count", "like", "between", "in", "is_true", "is_false", "not"}, Unchecked, "answer"),
          Bind({"is_distinct_from", "is_not_distinct_from", "is_null", "and", "or"}, Unchecked, "own"),
          Bind({"error"}, Unchecked, "first"),
          Bind({"coalesce"}, Unchecked \ {0}, "own"), Bind({"if"}, {3}, "own"),
          Bind({"ifnull", "nullif"}, {2}, "own")>>)

ConvertBinders ==
  Table(<<Bind({"cast"}, {4}, "own"),
          Bind({"interval", "make_interval", "parse_numeric", "parse_bignumeric"}, Unchecked, "call"),
          Bind({"justify_days", "justify_hours", "justify_interval"}, Unchecked, "refuse"),
          Bind({"farm_fingerprint", "md5", "sha1", "sha256", "sha512"}, {1}, "answer")>>)

CodeBinders ==
  Table(<<Bind({"ascii", "byte_length", "char_length", "chr", "code_points_to_bytes",
                "code_points_to_string"}, {1}, "answer"),
          Bind({"concat"}, Unchecked \ {0}, "answer"), Bind({"ends_with"}, {2}, "answer"),
          Bind({"contains_substr"}, Unchecked, "own"), Bind({"collate"}, {2}, "own")>>)

TextBinders ==
  Table(<<Bind({"format"}, Unchecked \ {0}, "answer"),
          Bind({"from_base32", "from_base64", "from_hex", "length", "lower"}, {1}, "answer"),
          Bind({"initcap", "ltrim"}, {1, 2}, "answer"), Bind({"instr"}, 2..4, "answer"),
          Bind({"left"}, {2}, "answer"), Bind({"lpad"}, {2, 3}, "answer")>>)

PatternBinders ==
  Table(<<Bind({"normalize", "normalize_and_casefold"}, {1, 2}, "answer"),
          Bind({"regexp_contains", "regexp_extract", "regexp_extract_all", "regexp_instr",
                "regexp_replace", "replace"}, Unchecked, "answer")>>)

SliceBinders ==
  Table(<<Bind({"repeat", "reverse", "right", "rpad", "safe_convert_bytes_to_string", "soundex"},
               Unchecked, "answer"),
          Bind({"rtrim"}, {1, 2}, "answer"), Bind({"split"}, Unchecked, "empty"),
          Bind({"starts_with", "strpos"}, {2}, "answer"), Bind({"substr"}, {2, 3}, "answer")>>)

EncodingBinders ==
  Table(<<Bind({"to_base32", "to_base64", "to_hex", "unicode", "upper"}, {1}, "answer"),
          Bind({"to_code_points"}, {1}, "empty"), Bind({"translate"}, {3}, "answer"),
          Bind({"trim"}, {1, 2}, "answer")>>)

JsonPathBinders ==
  Bind({"json_extract", "json_extract_scalar", "json_extract_array", "json_extract_string_array",
        "json_query", "json_value", "json_query_array", "json_value_array"}, Unchecked, "answer")

JsonBinders ==
  Table(<<Bind({"parse_json"}, Unchecked, "answer"), Bind({"to_json"}, {1, 2}, "answer"),
          Bind({"to_json_string"}, {1, 2}, "own"), Bind({"bool", "int64"}, {1}, "own"),
          Bind({"double"}, {2}, "own"), Bind({"json_type"}, {1}, "refuse")>>)

MathBinders ==
  Table(<<Bind({"abs", "sign", "is_inf", "is_nan", "ieee_divide", "rand", "sqrt", "pow", "power", "exp", "ln",
                "log", "log10", "greatest", "least", "div"}, Unchecked, "answer"),
          Bind({"safe_divide", "safe_multiply", "safe_negate", "safe_add", "safe_subtract"},
               Unchecked, "answer")>>)

RoundBinders ==
  Table(<<Bind({"mod", "trunc", "ceil", "ceiling", "floor"}, Unchecked, "answer"),
          Bind({"round"}, {1, 2}, "second")>>)

TrigBinders ==
  Bind({"cos", "cosh", "acos", "acosh", "sin", "sinh", "asin", "asinh", "tan", "tanh", "atan", "atanh",
        "atan2", "range_bucket"}, Unchecked, "answer")

\* CURRENT_* take nothing, the time the analyzer fixed, a zone, or both.
CurrentBinders ==
  Bind({"current_date", "current_datetime", "current_time", "current_timestamp"}, Unchecked, "current")

DateBinders ==
  Table(<<Bind({"date"}, Unchecked, "answer"), Bind({"date_add", "date_sub", "date_diff"}, {3}, "answer"),
          Bind({"date_trunc", "format_date", "parse_date"}, {2}, "answer"),
          Bind({"date_from_unix_date", "unix_date"}, {1}, "answer"), Bind({"last_day"}, {1, 2}, "answer")>>)

DatetimeBinders ==
  Table(<<Bind({"datetime"}, Unchecked, "answer"),
          Bind({"datetime_add", "datetime_sub", "datetime_diff"}, {3}, "answer"),
          Bind({"datetime_trunc", "format_datetime", "parse_datetime"}, {2}, "answer")>>)

TimeBinders ==
  Table(<<Bind({"time"}, Unchecked, "answer"), Bind({"time_add", "time_sub", "time_diff"}, {3}, "answer"),
          Bind({"time_trunc", "format_time", "parse_time"}, {2}, "answer")>>)

TimestampBinders ==
  Table(<<Bind({"string", "timestamp"}, {1, 2}, "answer"),
          Bind({"timestamp_add", "timestamp_sub", "timestamp_diff"}, {3}, "answer")>>)

UnixBinders ==
  Table(<<Bind({"timestamp_trunc", "format_timestamp"}, {2, 3}, "answer"),
          Bind({"parse_timestamp"}, Unchecked, "answer"),
          Bind({"timestamp_seconds", "timestamp_millis", "timestamp_micros", "unix_seconds", "unix_millis",
                "unix_micros"}, {1}, "answer")>>)

ArrayBinders ==
  Table(<<Bind({"array_concat"}, Unchecked \ {0}, "answer"),
          Bind({"array_first", "array_last", "array_length"}, {1}, "answer"),
          Bind({"array_slice"}, {3}, "answer"), Bind({"array_to_string"}, Unchecked \ {0, 1}, "answer"),
          Bind({"generate_array"}, {2, 3}, "empty")>>)

GenerateBinders ==
  Table(<<Bind({"generate_date_array"}, Unchecked \ {0, 1}, "empty"),
          Bind({"generate_timestamp_array"}, {4}, "empty"), Bind({"array_reverse"}, {1}, "answer"),
          Bind({"make_array"}, Unchecked, "own"), Bind({"make_struct"}, {n \in Unchecked : n % 2 = 0}, "own")>>)

\* The first arguments of EVAL_JAVASCRIPT are the code, the types and the names, never NULL; those
\* of the user go on to the engine untouched.
NetBinders ==
  Table(<<Bind({"net_host", "net_ip_from_string", "net_safe_ip_from_string"}, {1}, "answer"),
          Bind({"net_ip_net_mask"}, {2}, "answer"), Bind({"net_ip_trunc"}, {2}, "call"),
          Bind({"net_ip_to_string", "net_ipv4_from_int64", "net_ipv4_to_int64", "net_public_suffix",
                "net_reg_domain"}, {1}, "call"),
          Bind({"eval_javascript"}, Unchecked, "own")>>)

Binder ==
  Table(<<OperatorBinders, AccessBinders, LogicBinders, ConvertBinders, CodeBinders, TextBinders, PatternBinders,
          SliceBinders, EncodingBinders, JsonPathBinders, JsonBinders, MathBinders, RoundBinders, TrigBinders,
          CurrentBinders, DateBinders, DatetimeBinders, TimeBinders, TimestampBinders, UnixBinders, ArrayBinders,
          GenerateBinders, NetBinders>>)

=============================================================================
