CONSTANT Intents <- ServerIntents
SPECIFICATION CodecSpec
INVARIANT Understood
