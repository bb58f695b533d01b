CONSTANTS
    Key = {"id", "type"}
    MaxDepth = 2
    MaxPacket = 2
    UMax = 255
    Capacity = {0, 2, 3}
    TextCap = 9
    TokenCap = 3
    WordCap = 4
    Two = {"en", "pt", "ar", "zh", "ru", "pl", "cs", "sl", "lt", "lv", "ro", "he", "cy", "ga", "fr", "is"}
    Three = {"fil"}
    Four = {"latn"}
    Long = {"posix"}
    Code = {"419"}
    Dated = {"1996"}
    Mixed = {"abl1943"}
    Wrong = {"c"}
    Spaced = {"c x", "pl pl"}
    Beginning <- MCBeginning
    IntMax = 127
    MaxPlaceholder = 119
    Asked <- MCAsked
    Later = {"pt", "fil", "latn", "posix", "419", "1996", "abl1943", "c", "pl pl"}
    Home = "en"
    Away = "pl"
    MessageKey = {"base", "few", "other"}
    Count = {2, 5, 122}
    Limit = 1
    SpellCap = 4
    TemplateCap = 5
SPECIFICATION NativeSpec
INVARIANTS FieldsTrue Inv TranslatorTrue RequestsAgree MessagesAgree RendersAgree
PROPERTIES TakenWithReport RetrySucceeds
CHECK_DEADLOCK FALSE
